---- MODULE Spec2Model ----
(***************************************************************************)
(* Model of the rule and node aggregation pipeline of                      *)
(* clash_subscription_tool: dedup_and_paginate (utils/paginate.rs),        *)
(* download_multi_threaded (build/download.rs), extraction_rules           *)
(* (build/mathrule.rs), build_rules with process_download_rules            *)
(* (build/rules.rs) and sort_rules (build/sort.rs).                        *)
(*                                                                         *)
(* Text is modelled as a sequence of one-character strings, so that        *)
(* splitting, concatenation, prefix tests and byte-wise ordering are       *)
(* computed the way the Rust code computes them.                           *)
(***************************************************************************)
EXTENDS Integers, Sequences, FiniteSets, TLC

\* ------------------------------------------------------------------------
\* Text helpers (Rust str / String semantics)
\* ------------------------------------------------------------------------

\* The whitespace control characters and the printable ASCII characters
\* (without the backquote), in byte order.
Alphabet ==
    << "\t", "\n", "\f", "\r",
       " ", "!", "\"", "#", "$", "%", "&", "'", "(", ")", "*", "+", ",", "-",
       ".", "/", "0", "1", "2", "3", "4", "5", "6", "7", "8", "9", ":", ";",
       "<", "=", ">", "?", "@", "A", "B", "C", "D", "E", "F", "G", "H", "I",
       "J", "K", "L", "M", "N", "O", "P", "Q", "R", "S", "T", "U", "V", "W",
       "X", "Y", "Z", "[", "\\", "]", "^", "_", "a", "b", "c", "d", "e",
       "f", "g", "h", "i", "j", "k", "l", "m", "n", "o", "p", "q", "r", "s",
       "t", "u", "v", "w", "x", "y", "z", "{", "|", "}", "~" >>

\* Position of a character in ASCII order (byte comparison of Rust strings).
Ord(c) == CHOOSE i \in 1..Len(Alphabet) : Alphabet[i] = c

Min(a, b) == IF a < b THEN a ELSE b

\* <str as Ord>::cmp(a, b) == Less : lexicographic comparison of the bytes.
StrLT(a, b) ==
    \/ \E i \in 1..Min(Len(a), Len(b)) :
          /\ \A j \in 1..(i - 1) : a[j] = b[j]
          /\ Ord(a[i]) < Ord(b[i])
    \/ /\ Len(a) < Len(b)
       /\ \A j \in 1..Len(a) : a[j] = b[j]

\* The first n elements of a sequence (a slice s[..n]).
Take(s, n) == SubSeq(s, 1, n)

\* The elements after the first n (a slice s[n..]).
Drop(s, n) == SubSeq(s, n + 1, Len(s))

\* The set of elements of a sequence.
Range(s) == { s[i] : i \in 1..Len(s) }

\* All sequences over S of length 0..n.
SeqsUpTo(S, n) == UNION { [1..k -> S] : k \in 0..n }

\* str::starts_with
StartsWith(s, prefix) ==
    Len(prefix) <= Len(s) /\ Take(s, Len(prefix)) = prefix

\* str::ends_with
EndsWith(s, suffix) ==
    Len(suffix) <= Len(s) /\ Drop(s, Len(s) - Len(suffix)) = suffix

\* The 0-based byte offsets at which pat occurs in s.
Occurrences(s, pat) ==
    { i \in 0..(Len(s) - Len(pat)) : SubSeq(s, i + 1, i + Len(pat)) = pat }

\* str::contains
Contains(s, pat) == Occurrences(s, pat) # {}

\* str::find: the offset of the first occurrence, or -1 for None.
Find(s, pat) ==
    IF Contains(s, pat)
    THEN CHOOSE i \in Occurrences(s, pat) : \A j \in Occurrences(s, pat) : i <= j
    ELSE -1

RECURSIVE Split(_, _)
\* str::split(c): the pieces between the occurrences of the character c.
Split(s, c) ==
    IF Find(s, <<c>>) = -1 THEN << s >>
    ELSE << Take(s, Find(s, <<c>>)) >> \o Split(Drop(s, Find(s, <<c>>) + 1), c)

RECURSIVE SplitN(_, _, _)
\* str::splitn(n, c): at most n pieces, the last one holding the rest.
SplitN(s, n, c) ==
    IF n <= 1 \/ Find(s, <<c>>) = -1 THEN << s >>
    ELSE << Take(s, Find(s, <<c>>)) >> \o SplitN(Drop(s, Find(s, <<c>>) + 1), n - 1, c)

RECURSIVE Flatten(_)
\* Concatenation of a sequence of sequences.
Flatten(ss) == IF ss = <<>> THEN <<>> ELSE Head(ss) \o Flatten(Tail(ss))

\* ------------------------------------------------------------------------
\* utils/paginate.rs : values, hashing, base62
\* ------------------------------------------------------------------------

\* A structured value (serde_yaml::Value on input, serde_json::Value inside
\* compute_hash) is a record: kind, the scalar's text, and for containers the
\* ordered entries <<key, value>> (a sequence element has the empty key).
Scalar(k, t) == [kind |-> k, text |-> t, fields |-> <<>>]
YNull == Scalar("null", <<>>)
YStr(t) == Scalar("string", t)
YInt(t) == Scalar("number", t)
YBool(t) == Scalar("bool", t)
YMap(entries) == [kind |-> "mapping", text |-> <<>>, fields |-> entries]
YSeq(elems) ==
    [kind |-> "sequence", text |-> <<>>,
     fields |-> [i \in 1..Len(elems) |-> << <<>>, elems[i] >>]]

RECURSIVE to_value(_)
\* serde_json::to_value(item): a YAML mapping becomes a JSON object, a YAML
\* sequence a JSON array, scalars keep their kind and text.
to_value(v) ==
    CASE v.kind = "mapping" ->
           [kind |-> "object", text |-> <<>>,
            fields |-> [i \in 1..Len(v.fields) |->
                          << v.fields[i][1], to_value(v.fields[i][2]) >>]]
      [] v.kind = "sequence" ->
           [kind |-> "array", text |-> <<>>,
            fields |-> [i \in 1..Len(v.fields) |->
                          << <<>>, to_value(v.fields[i][2]) >>]]
      [] OTHER -> v

\* map.remove(field) on the entries of an object.
RemoveKey(entries, key) ==
    SelectSeq(entries, LAMBDA e : e[1] # key)

RECURSIVE RemoveKeys(_, _)
RemoveKeys(entries, fields) ==
    IF fields = <<>> THEN entries
    ELSE RemoveKeys(RemoveKey(entries, Head(fields)), Tail(fields))

\* remove_fields_from_json: top-level fields only, and only of an object.
remove_fields_from_json(value, fields) ==
    IF value.kind = "object"
    THEN [value EXCEPT !.fields = RemoveKeys(value.fields, fields)]
    ELSE value

RECURSIVE InsertByKey(_, _)
\* Insertion of entry e into entries already sorted by key (sort_by_key is a
\* stable sort: an equal key goes after the entries already there).
InsertByKey(sorted, e) ==
    IF sorted = <<>> THEN <<e>>
    ELSE IF StrLT(e[1], Head(sorted)[1])
         THEN <<e>> \o sorted
         ELSE <<Head(sorted)>> \o InsertByKey(Tail(sorted), e)

RECURSIVE SortByKey(_)
\* entries.sort_by_key(|(k, _)| k.clone())
SortByKey(entries) ==
    IF entries = <<>> THEN <<>>
    ELSE InsertByKey(SortByKey(Take(entries, Len(entries) - 1)),
                     entries[Len(entries)])

RECURSIVE sort_json_value(_)
\* Objects: entries sorted by key, values sorted recursively.  Arrays: order
\* kept, elements sorted recursively.  Scalars: unchanged.
sort_json_value(value) ==
    CASE value.kind = "object" ->
           LET sorted == SortByKey(value.fields)
           IN  [value EXCEPT !.fields =
                   [i \in 1..Len(sorted) |->
                       << sorted[i][1], sort_json_value(sorted[i][2]) >>]]
      [] value.kind = "array" ->
           [value EXCEPT !.fields =
               [i \in 1..Len(value.fields) |->
                   << <<>>, sort_json_value(value.fields[i][2]) >>]]
      [] OTHER -> value

Quoted(t) == <<"\"">> \o t \o <<"\"">>

RECURSIVE to_vec(_)
RECURSIVE JoinEntries(_, _)
\* The comma-separated members of an object ("key":value) or array (value).
JoinEntries(entries, isObject) ==
    IF entries = <<>> THEN <<>>
    ELSE LET e == Head(entries)
             one == IF isObject
                    THEN Quoted(e[1]) \o <<":">> \o to_vec(e[2])
                    ELSE to_vec(e[2])
         IN  IF Len(entries) = 1 THEN one
             ELSE one \o <<",">> \o JoinEntries(Tail(entries), isObject)

\* serde_json::to_vec: the compact JSON text of a value.
to_vec(value) ==
    CASE value.kind = "null" -> <<"n", "u", "l", "l">>
      [] value.kind = "bool" -> value.text
      [] value.kind = "number" -> value.text
      [] value.kind = "string" -> Quoted(value.text)
      [] value.kind = "array" ->
           <<"[">> \o JoinEntries(value.fields, FALSE) \o <<"]">>
      [] value.kind = "object" ->
           <<"{">> \o JoinEntries(value.fields, TRUE) \o <<"}">>

\* blake3 over the serialized bytes.  The digest is modelled as collision
\* free: equal digests exactly for equal byte strings.
Blake3(bytes) == <<"blake3", bytes>>

\* Mutant of compute_hash: the object keys are not sorted before hashing.
compute_hash_Unsorted(item, fields) ==
    Blake3(to_vec(remove_fields_from_json(to_value(item), fields)))

\* compute_hash(item, fields_to_remove)
compute_hash(item, fields) ==
    Blake3(to_vec(sort_json_value(remove_fields_from_json(to_value(item), fields))))

\* const CHARSET of base62_encode
CHARSET ==
    << "0", "1", "2", "3", "4", "5", "6", "7", "8", "9",
       "a", "b", "c", "d", "e", "f", "g", "h", "i", "j", "k", "l", "m",
       "n", "o", "p", "q", "r", "s", "t", "u", "v", "w", "x", "y", "z",
       "A", "B", "C", "D", "E", "F", "G", "H", "I", "J", "K", "L", "M",
       "N", "O", "P", "Q", "R", "S", "T", "U", "V", "W", "X", "Y", "Z" >>

RECURSIVE base62_encode(_)
\* Digits of n in base 62, most significant first; the empty text for n = 0
\* (the loop `while n > 0` pushes the least significant digit first and the
\* result is reversed).
base62_encode(n) ==
    IF n > 0
    THEN base62_encode(n \div 62) \o << CHARSET[(n % 62) + 1] >>
    ELSE <<>>

\* Range of the model's stand-in for the 64-bit hash value.
HashModulus == 1000003

RECURSIVE DefaultHash(_)
\* DefaultHasher::new() + name.hash() + finish(): SipHash with fixed keys, a
\* deterministic function of the name's bytes.  The model uses a polynomial
\* over the character codes in its integer range.
DefaultHash(name) ==
    IF name = <<>> THEN 7
    ELSE (DefaultHash(Take(name, Len(name) - 1)) * 31 + Ord(name[Len(name)]))
             % HashModulus

\* &base62[..6.min(base62.len())] of the encoded hash of the name
short_id(name) ==
    LET base62 == base62_encode(DefaultHash(name))
    IN  Take(base62, Min(6, Len(base62)))

\* format!("{}-{}", name, short_id)
new_name(name) == name \o <<"-">> \o short_id(name)

NameKey == <<"n", "a", "m", "e">>
SkipCertKey ==
    <<"s", "k", "i", "p", "-", "c", "e", "r", "t", "-", "v", "e", "r", "i", "f", "y">>

\* The ignored fields main passes: &["name", "skip-cert-verify"]
fields_to_remove == << NameKey, SkipCertKey >>

\* Mapping::get(key): the entries with that key (at most one in a mapping).
EntriesOf(item, key) ==
    IF item.kind = "mapping"
    THEN SelectSeq(item.fields, LAMBDA e : e[1] = key)
    ELSE <<>>

\* main's extract_name closure: item.get("name").and_then(as_str).  An
\* Option<String> is a sequence of length 0 (None) or 1 (Some).
extract_name(item) ==
    LET es == EntriesOf(item, NameKey)
    IN  IF es # <<>> /\ es[1][2].kind = "string"
        THEN << es[1][2].text >>
        ELSE <<>>

\* Mutant of set_name: the setter leaves the item as it is.
set_name_NoOp(item, name) == item

\* main's set_name closure: map.insert("name", String(new_name)) on a
\* mapping (an existing key keeps its position, a new key is appended);
\* nothing for any other value.
set_name(item, name) ==
    IF item.kind # "mapping" THEN item
    ELSE IF EntriesOf(item, NameKey) # <<>>
         THEN [item EXCEPT !.fields =
                  [i \in 1..Len(item.fields) |->
                      IF item.fields[i][1] = NameKey
                      THEN << NameKey, YStr(name) >>
                      ELSE item.fields[i]]]
         ELSE [item EXCEPT !.fields = Append(item.fields, << NameKey, YStr(name) >>)]

\* ------------------------------------------------------------------------
\* build/patterns.rs, build/mathrule.rs : extraction_rules
\* ------------------------------------------------------------------------

\* \s of the patterns.
Whitespace == { " ", "\t", "\n", "\f", "\r" }
QuoteChars == { "'", "\"" }
Digits == { "0", "1", "2", "3", "4", "5", "6", "7", "8", "9" }
UpperCase ==
    { "A", "B", "C", "D", "E", "F", "G", "H", "I", "J", "K", "L", "M",
      "N", "O", "P", "Q", "R", "S", "T", "U", "V", "W", "X", "Y", "Z" }
LowerCase ==
    { "a", "b", "c", "d", "e", "f", "g", "h", "i", "j", "k", "l", "m",
      "n", "o", "p", "q", "r", "s", "t", "u", "v", "w", "x", "y", "z" }
Letters == UpperCase \cup LowerCase
HexDigits == Digits \cup { "A", "B", "C", "D", "E", "F", "a", "b", "c", "d", "e", "f" }
LabelChars == Letters \cup Digits \cup { "-" }

\* Every character of s is in the set cs.
AllIn(s, cs) == \A i \in 1..Len(s) : s[i] \in cs

\* The value of a decimal digit or of a hexadecimal digit.
DigitValue(c) ==
    IF c \in Digits THEN Ord(c) - Ord("0")
    ELSE IF c \in UpperCase THEN Ord(c) - Ord("A") + 10
    ELSE Ord(c) - Ord("a") + 10

RECURSIVE NumberValue(_, _)
\* The value of the digits s in the given base.
NumberValue(s, base) ==
    IF s = <<>> THEN 0
    ELSE NumberValue(Take(s, Len(s) - 1), base) * base + DigitValue(s[Len(s)])

\* s is the decimal numeral, without leading zeros, of a number in 0..max:
\* the language of 25[0-5]|2[0-4]\d|1\d\d|[1-9]?\d for max = 255, of
\* 3[0-2]|[12]?\d for max = 32, of 12[0-8]|1[01][0-9]|[1-9]?[0-9] for max = 128.
IsNumeral(s, max) ==
    /\ Len(s) >= 1
    /\ Len(s) <= 3
    /\ AllIn(s, Digits)
    /\ Len(s) > 1 => s[1] # "0"
    /\ NumberValue(s, 10) <= max

\* The number of leading whitespace characters of s.
LeadingWhitespace(s) ==
    CHOOSE n \in 0..Len(s) :
        /\ \A i \in 1..n : s[i] \in Whitespace
        /\ n < Len(s) => s[n + 1] \notin Whitespace

\* (?:[^'"]|\\'|\\")* : every quote character follows a backslash that
\* escapes it.
QuotedContent(c) ==
    \A i \in 1..Len(c) : c[i] \in QuoteChars => (i > 1 /\ c[i - 1] = "\\")

\* The captures of a match: group 2 and group 3 as Options (a sequence of
\* length 0 or 1).
NoMatch == [matched |-> FALSE, group2 |-> <<>>, group3 |-> <<>>]
QuotedMatch(c) == [matched |-> TRUE, group2 |-> << c >>, group3 |-> <<>>]
PlainMatch(c) == [matched |-> TRUE, group2 |-> <<>>, group3 |-> << c >>]

\* (?:(['"])((?:[^'"]|\\'|\\")*)\1|([^\s'"]+))$ on the text v after "- ".
YamlItem(v) ==
    IF /\ Len(v) >= 2
       /\ v[1] \in QuoteChars
       /\ v[Len(v)] = v[1]
       /\ QuotedContent(SubSeq(v, 2, Len(v) - 1))
    THEN QuotedMatch(SubSeq(v, 2, Len(v) - 1))
    ELSE IF Len(v) >= 1 /\ \A i \in 1..Len(v) : v[i] \notin Whitespace \cup QuoteChars
    THEN PlainMatch(v)
    ELSE NoMatch

\* "- " and the item, on the text after the leading whitespace.
YamlDash(rest) ==
    IF StartsWith(rest, <<"-", " ">>) THEN YamlItem(Drop(rest, 2)) ELSE NoMatch

\* RE_YAML_RULES.captures(line) for
\*   ^\s*- (?:(['"])((?:[^'"]|\\'|\\")*)\1|([^\s'"]+))$
RE_YAML_RULES(line) == YamlDash(Drop(line, LeadingWhitespace(line)))

\* One label of RE_YAML_DOMAIN: (?!-)[A-Za-z0-9-]{1,63}(?<!-)
DomainLabel(l) ==
    /\ Len(l) >= 1
    /\ Len(l) <= 63
    /\ AllIn(l, LabelChars)
    /\ l[1] # "-"
    /\ l[Len(l)] # "-"

\* The labels and the top-level domain [A-Za-z]{2,6} of RE_YAML_DOMAIN, on the
\* pieces between the dots.
DomainParts(parts) ==
    /\ Len(parts) >= 2
    /\ \A i \in 1..(Len(parts) - 1) : DomainLabel(parts[i])
    /\ Len(parts[Len(parts)]) >= 2
    /\ Len(parts[Len(parts)]) <= 6
    /\ AllIn(parts[Len(parts)], Letters)

\* RE_YAML_DOMAIN.is_match(s) for
\*   ^(?:(?!-)[A-Za-z0-9-]{1,63}(?<!-)\.)+[A-Za-z]{2,6}$
RE_YAML_DOMAIN(s) == DomainParts(Split(s, "."))

\* [0-9A-Fa-f]{1,4}
HexGroup(g) == Len(g) >= 1 /\ Len(g) <= 4 /\ AllIn(g, HexDigits)

\* Every piece is a hexadecimal group.
AllHexGroups(pieces) == \A i \in 1..Len(pieces) : HexGroup(pieces[i])

\* The pieces of a colon-separated run: the empty text has no piece.
ColonPieces(s) == IF s = <<>> THEN <<>> ELSE Split(s, ":")

\* A head of l groups and a tail of r groups around "::" with l + r <= 7:
\* the union of the alternatives of the ipv6_cidr pattern that hold "::".
Ipv6Around(head, tail) ==
    /\ Len(head) + Len(tail) <= 7
    /\ AllHexGroups(head)
    /\ AllHexGroups(tail)

\* Eight groups between colons.
Ipv6Full(pieces) == Len(pieces) = 8 /\ AllHexGroups(pieces)

\* The address part of the ipv6_cidr pattern.
Ipv6Text(s) ==
    \/ Ipv6Full(Split(s, ":"))
    \/ \E i \in Occurrences(s, <<":", ":">>) :
          Ipv6Around(ColonPieces(Take(s, i)), ColonPieces(Drop(s, i + 2)))

\* Four numerals of 0..255 between dots.
Ipv4Quad(pieces) ==
    /\ Len(pieces) = 4
    /\ \A i \in 1..4 : IsNumeral(pieces[i], 255)

\* The dotted quad of the ipv4_cidr pattern.
Ipv4Text(s) == Ipv4Quad(Split(s, "."))

\* The type of the pieces around "/": "IP-CIDR" for a dotted quad and a
\* prefix of 0..32, "IP-CIDR6" for an IPv6 address and a prefix of 0..128, the
\* empty text for None.
CidrTypeOf(parts) ==
    IF Len(parts) # 2 THEN <<>>
    ELSE IF Ipv4Text(parts[1]) /\ IsNumeral(parts[2], 32) THEN <<"I", "P", "-", "C", "I", "D", "R">>
    ELSE IF Ipv6Text(parts[1]) /\ IsNumeral(parts[2], 128) THEN <<"I", "P", "-", "C", "I", "D", "R", "6">>
    ELSE <<>>

\* get_cidr_type(s), the empty text for None.
get_cidr_type(s) == CidrTypeOf(Split(s, "/"))

\* constants::FILTER_KEY: the exclusion markers.
FILTER_KEY ==
    { <<"U", "S", "E", "R", "-", "A", "G", "E", "N", "T">>,
      <<"U", "R", "L", "-", "R", "E", "G", "E", "X">>,
      <<"I", "P", "-", "A", "S", "N">>,
      <<"#">>,
      <<"p", "a", "y", "l", "o", "a", "d", ":">>,
      <<"D", "O", "M", "A", "I", "N", "-", "R", "E", "G", "E", "X">> }

\* constants::INCLUDE_KEY: the rule-type keywords kept as they are.
INCLUDE_KEY ==
    { <<"D", "O", "M", "A", "I", "N">>,
      <<"D", "O", "M", "A", "I", "N", "-", "S", "U", "F", "F", "I", "X">>,
      <<"D", "O", "M", "A", "I", "N", "-", "K", "E", "Y", "W", "O", "R", "D">>,
      <<"G", "E", "O", "I", "P">>,
      <<"S", "R", "C", "-", "G", "E", "O", "I", "P">>,
      <<"S", "R", "C", "-", "I", "P", "-", "A", "S", "N">>,
      <<"I", "P", "-", "C", "I", "D", "R">>,
      <<"I", "P", "-", "C", "I", "D", "R", "6">>,
      <<"S", "R", "C", "-", "I", "P", "-", "C", "I", "D", "R">>,
      <<"I", "P", "-", "S", "U", "F", "F", "I", "X">>,
      <<"S", "R", "C", "-", "I", "P", "-", "S", "U", "F", "F", "I", "X">>,
      <<"S", "R", "C", "-", "P", "O", "R", "T">>,
      <<"D", "S", "T", "-", "P", "O", "R", "T">>,
      <<"I", "N", "-", "P", "O", "R", "T">>,
      <<"D", "S", "C", "P">>,
      <<"P", "R", "O", "C", "E", "S", "S", "-", "N", "A", "M", "E">>,
      <<"P", "R", "O", "C", "E", "S", "S", "-", "P", "A", "T", "H">>,
      <<"P", "R", "O", "C", "E", "S", "S", "-", "N", "A", "M", "E", "-", "R", "E", "G", "E", "X">>,
      <<"P", "R", "O", "C", "E", "S", "S", "-", "P", "A", "T", "H", "-", "R", "E", "G", "E", "X">>,
      <<"N", "E", "T", "W", "O", "R", "K">>,
      <<"U", "I", "D">>,
      <<"I", "N", "-", "T", "Y", "P", "E">>,
      <<"I", "N", "-", "U", "S", "E", "R">>,
      <<"I", "N", "-", "N", "A", "M", "E">>,
      <<"S", "U", "B", "-", "R", "U", "L", "E">>,
      <<"A", "N", "D">>,
      <<"O", "R">>,
      <<"N", "O", "T">>,
      <<"R", "U", "L", "E", "-", "S", "E", "T">>,
      <<"M", "A", "T", "C", "H">> }

\* FILTER_KEY.iter().all(|kw| !s.contains(kw))
NotFiltered(s) == \A kw \in FILTER_KEY : ~Contains(s, kw)

RECURSIVE trim_start_matches(_, _)
\* str::trim_start_matches(pat): the prefix pat removed as often as it occurs.
trim_start_matches(s, pat) ==
    IF StartsWith(s, pat) THEN trim_start_matches(Drop(s, Len(pat)), pat) ELSE s

\* match_content of extraction_rules, the empty text for None (the caller
\* takes unwrap_or_default): group 2 or group 3 of a match, else the line
\* itself when it holds no exclusion marker.
MatchContent(line, captures) ==
    IF captures.matched
    THEN (IF captures.group2 # <<>> THEN captures.group2[1] ELSE captures.group3[1])
    ELSE IF NotFiltered(line) THEN line
    ELSE <<>>

\* The CIDR rule of a bare subnet: type, subnet, ",no-resolve".
CidrRule(rule, type) ==
    IF type # <<>> THEN type \o <<",">> \o rule \o <<",", "n", "o", "-", "r", "e", "s", "o", "l", "v", "e">> ELSE <<>>

\* The wildcard, domain and CIDR steps of extraction_rules (mathrule.rs
\* 85-94).
ShapeRule(rule) ==
    IF StartsWith(rule, <<"+", ".">>)
    THEN <<"D", "O", "M", "A", "I", "N", "-", "S", "U", "F", "F", "I", "X", ",">> \o trim_start_matches(rule, <<"+", ".">>)
    ELSE IF RE_YAML_DOMAIN(rule) THEN <<"D", "O", "M", "A", "I", "N", ",">> \o rule
    ELSE CidrRule(rule, get_cidr_type(rule))

\* The classification of the extracted text (mathrule.rs 82-98).
ClassifyRule(rule) ==
    IF rule = <<>> THEN <<>>
    ELSE IF \E kw \in INCLUDE_KEY : Contains(rule, kw) THEN rule
    ELSE ShapeRule(rule)

\* extraction_rules(line)
extraction_rules(line) == ClassifyRule(MatchContent(line, RE_YAML_RULES(line)))

\* ------------------------------------------------------------------------
\* build/rules.rs : format_rules, process_final_rules
\* ------------------------------------------------------------------------

\* const NO_RESOLVE: &str = ",no-resolve";
NO_RESOLVE == <<",", "n", "o", "-", "r", "e", "s", "o", "l", "v", "e">>

\* The text with "," and the name put in at offset pos.
InsertName(rule, pos, name_str) ==
    Take(rule, pos) \o <<",">> \o name_str \o Drop(rule, pos)

\* The IP-CIDR branch of format_rules: pos is rule.find(NO_RESOLVE).
FormatCidr(rule, pos, name_str) ==
    IF pos # -1 THEN InsertName(rule, pos, name_str)
    ELSE rule \o <<",">> \o name_str

\* rule.strip_suffix(NO_RESOLVE).unwrap_or(&rule)
StripNoResolve(rule) ==
    IF EndsWith(rule, NO_RESOLVE) THEN Take(rule, Len(rule) - Len(NO_RESOLVE))
    ELSE rule

\* The other branch of format_rules.
FormatOther(stripped_rule, name_str) ==
    IF stripped_rule # <<>> THEN stripped_rule \o <<",">> \o name_str ELSE <<>>

\* format_rules on the extracted rule.
FormatExtracted(rule, name_str) ==
    IF ~NotFiltered(rule) THEN <<>>
    ELSE IF StartsWith(rule, <<"I", "P", "-", "C", "I", "D", "R">>)
    THEN FormatCidr(rule, Find(rule, NO_RESOLVE), name_str)
    ELSE FormatOther(StripNoResolve(rule), name_str)

\* format_rules(item, name_str)
format_rules(item, name_str) == FormatExtracted(extraction_rules(item), name_str)

\* str::replacen("[]", "", 1) on a text that holds "[]" at offset pos.
RemoveAt(s, pos) == Take(s, pos) \o Drop(s, pos + 2)

\* The branches of process_final_rules on the rule without its "[]".
FinalRule(rule, name_str) ==
    IF Contains(rule, NO_RESOLVE)
    THEN << InsertName(rule, Find(rule, NO_RESOLVE), name_str) >>
    ELSE IF /\ ~Contains(rule, <<"F", "I", "N", "A", "L">>)
            /\ ~Contains(rule, <<"G", "E", "O", "S", "I", "T", "E", ",">>)
            /\ ~Contains(rule, NO_RESOLVE)
    THEN << rule \o <<",">> \o name_str >>
    ELSE IF Contains(rule, <<"F", "I", "N", "A", "L">>) THEN << <<"M", "A", "T", "C", "H", ",">> \o name_str >>
    ELSE <<>>

\* The body of process_final_rules for one ruleset: the rules it pushes (none
\* or one).
final_rule_of(name_str, rule_str) ==
    IF ~Contains(rule_str, <<"[", "]">>) THEN <<>>
    ELSE FinalRule(RemoveAt(rule_str, Find(rule_str, <<"[", "]">>)), name_str)

RECURSIVE process_final_rules(_)
\* process_final_rules(rulesets): the final rules in declaration order.
process_final_rules(rulesets) ==
    IF rulesets = <<>> THEN <<>>
    ELSE final_rule_of(Head(rulesets).name, Head(rulesets).rule)
            \o process_final_rules(Tail(rulesets))

\* ------------------------------------------------------------------------
\* build/sort.rs : ip_to_u128, sort_rules
\* ------------------------------------------------------------------------

\* A u128 is held as its eight 16-bit groups, most significant first; an
\* Option is a sequence of length 0 (None) or 1 (Some).

\* The two 16-bit groups of the u32 of the four octets.
OctetGroups(o) ==
    << NumberValue(o[1], 10) * 256 + NumberValue(o[2], 10),
       NumberValue(o[3], 10) * 256 + NumberValue(o[4], 10) >>

\* "a.b.c.d".parse::<Ipv4Addr>() as the two 16-bit groups of its u32.
Ipv4Groups(s) == OctetGroups(Split(s, "."))

\* The values of hexadecimal groups.
HexValues(pieces) == [i \in 1..Len(pieces) |-> NumberValue(pieces[i], 16)]

\* read_groups of the IPv6 parser on the pieces between colons: the last
\* piece may be a dotted quad standing for two groups; None when a piece is
\* neither.
GroupsOf(pieces) ==
    IF AllHexGroups(pieces) THEN << HexValues(pieces) >>
    ELSE IF /\ AllHexGroups(Take(pieces, Len(pieces) - 1))
            /\ Ipv4Text(pieces[Len(pieces)])
    THEN << HexValues(Take(pieces, Len(pieces) - 1))
               \o Ipv4Groups(pieces[Len(pieces)]) >>
    ELSE <<>>

\* The groups of a colon-separated run; the empty run has none.
ReadGroups(s) == GroupsOf(ColonPieces(s))

\* The groups of a run without dotted quad, as it may stand before "::".
HeadGroups(s) ==
    IF AllHexGroups(ColonPieces(s)) THEN << HexValues(ColonPieces(s)) >> ELSE <<>>

\* The address of a head and a tail around "::": the groups between them
\* are zero; None when one of them is None or they hold more than seven
\* groups.
JoinGroups(head, tail) ==
    IF head = <<>> \/ tail = <<>> THEN <<>>
    ELSE IF Len(head[1]) + Len(tail[1]) > 7 THEN <<>>
    ELSE << head[1] \o [j \in 1..(8 - Len(head[1]) - Len(tail[1])) |-> 0]
               \o tail[1] >>

\* The one element of a set of at most one element, as an Option.
OnlyOf(set) == IF set = {} THEN <<>> ELSE << CHOOSE x \in set : TRUE >>

\* The address read around the "::" at one of the offsets.
Compressed(s, offsets) ==
    OnlyOf({ a \in { JoinGroups(HeadGroups(Take(s, i)), ReadGroups(Drop(s, i + 2))) :
                        i \in offsets } : a # <<>> })

\* None for an Option of None, else the inner Option.
Flat(opt) == IF opt = <<>> THEN <<>> ELSE opt[1]

\* s.parse::<Ipv6Addr>(): eight groups, or a head, "::" and a tail.
WholeOrCompressed(s, whole) ==
    IF s # <<>> /\ whole # <<>> /\ Len(Flat(whole)) = 8 THEN whole
    ELSE Flat(Compressed(s, Occurrences(s, <<":", ":">>)))

ParseIpv6(s) == WholeOrCompressed(s, ReadGroups(s))

\* ip_to_u128(ip_str)
ip_to_u128(ip_str) ==
    IF Ipv4Text(ip_str)
    THEN << <<0, 0, 0, 0, 0, 0>> \o Ipv4Groups(ip_str) >>
    ELSE ParseIpv6(ip_str)

\* ip_sort_key of sort_rules.
IpSortKey(type_part, key_part) ==
    IF type_part = <<"I", "P", "-", "C", "I", "D", "R">> THEN ip_to_u128(Split(key_part, "/")[1]) ELSE <<>>

\* The tuple (type_part, ip_sort_key, key_part, line).
TupleOf(type_part, key_part, line) ==
    [type_part |-> type_part, ip_sort_key |-> IpSortKey(type_part, key_part),
     key_part |-> key_part, line |-> line]

\* parts.next().unwrap_or("") for the second part.
SecondPart(parts) == IF Len(parts) >= 2 THEN parts[2] ELSE <<>>

\* The tuple of a line split into its parts.
TupleOfParts(parts, line) == TupleOf(parts[1], SecondPart(parts), line)

\* The tuple sort_rules builds for a line.
SortTuple(line) == TupleOfParts(SplitN(line, 3, ","), line)

\* <u128 as Ord>::cmp(a, b) == Less on the groups.
U128LT(a, b) ==
    \E i \in 1..8 :
        /\ \A j \in 1..(i - 1) : a[j] = b[j]
        /\ a[i] < b[i]

\* <Option<u128> as Ord>::cmp(a, b) == Less : None is below every Some.
OptionLT(a, b) ==
    \/ a = <<>> /\ b # <<>>
    \/ a # <<>> /\ b # <<>> /\ U128LT(a[1], b[1])

\* The comparator with the key parts of IP-CIDR tuples compared as text.
RuleLess_ByText(a, b) ==
    \/ StrLT(a.type_part, b.type_part)
    \/ /\ a.type_part = b.type_part
       /\ StrLT(a.key_part, b.key_part)

\* The comparator of par_sort_unstable_by yields Less for (a, b).
RuleLess(a, b) ==
    \/ StrLT(a.type_part, b.type_part)
    \/ /\ a.type_part = b.type_part
       /\ IF a.type_part = <<"I", "P", "-", "C", "I", "D", "R">>
          THEN OptionLT(a.ip_sort_key, b.ip_sort_key)
          ELSE StrLT(a.key_part, b.key_part)

\* A sort that leaves the tuples in any order.
Smallest_Any(tuples, S) == S

\* The indices in S of the tuples no tuple of S is less than.
Smallest(tuples, S) ==
    { m \in S : \A j \in S : ~RuleLess(tuples[j], tuples[m]) }

RECURSIVE SortedOrders(_, _)
\* The orders in which an unstable sort may leave the tuples with indices
\* in S: any order in which no tuple is followed by a smaller one. Tuples
\* the comparator holds equal come out in an order the sort does not fix.
SortedOrders(tuples, S) ==
    IF S = {} THEN { <<>> }
    ELSE UNION { { << tuples[i] >> \o rest :
                      rest \in SortedOrders(tuples, S \ {i}) } :
                 i \in Smallest(tuples, S) }

RECURSIVE dedup(_)
\* Vec::dedup: of a run of consecutive equal elements the first is kept.
dedup(v) ==
    IF Len(v) <= 1 THEN v
    ELSE IF v[Len(v)] = v[Len(v) - 1] THEN dedup(Take(v, Len(v) - 1))
    ELSE Append(dedup(Take(v, Len(v) - 1)), v[Len(v)])

\* The lines of the tuples.
LinesOf(tuples) == [i \in 1..Len(tuples) |-> tuples[i].line]

\* The tuples of the lines.
TuplesOf(ls) == [i \in 1..Len(ls) |-> SortTuple(ls[i])]

\* The deduplicated lines of every order the sort may leave the tuples in.
SortedLines(tuples) ==
    { dedup(LinesOf(sorted)) : sorted \in SortedOrders(tuples, 1..Len(tuples)) }

\* sort_rules(lines): the set of results the unstable sort allows.
sort_rules(ls) == SortedLines(TuplesOf(ls))

\* ------------------------------------------------------------------------
\* build/rules.rs : the pieces of process_download_rules
\* ------------------------------------------------------------------------

\* The line without its "\n" or "\r\n" ending.
StripLineEnding(l) ==
    IF EndsWith(l, <<"\r", "\n">>) THEN Take(l, Len(l) - 2)
    ELSE IF EndsWith(l, <<"\n">>) THEN Take(l, Len(l) - 1)
    ELSE l

RECURSIVE lines(_)
RECURSIVE LinesAt(_, _)
\* The lines of a text whose first "\n" is at offset pos (-1 for none).
LinesAt(text, pos) ==
    IF pos = -1 THEN << text >>
    ELSE << StripLineEnding(Take(text, pos + 1)) >> \o lines(Drop(text, pos + 1))

\* str::lines and BufRead::lines: the text cut after every "\n", every
\* piece without its line ending.
lines(text) ==
    IF text = <<>> THEN <<>> ELSE LinesAt(text, Find(text, <<"\n">>))

\* The last component, or "unknown" when there is none or it is "..".
LastComponent(comps) ==
    IF comps = <<>> THEN <<"u", "n", "k", "n", "o", "w", "n">>
    ELSE IF comps[Len(comps)] = <<".", ".">> THEN <<"u", "n", "k", "n", "o", "w", "n">>
    ELSE comps[Len(comps)]

\* Path::new(url).file_name() or "unknown": the last component of the path;
\* empty components and "." are no components, ".." has no file name.
file_name(url) ==
    LastComponent(SelectSeq(Split(url, "/"), LAMBDA c : c # <<>> /\ c # <<".">>))

\* A vector of the rule when it is not empty, else the empty vector.
IfNotEmpty(rule_str) == IF rule_str # <<>> THEN << rule_str >> ELSE <<>>

RECURSIVE format_all(_, _)
\* The non-empty results of format_rules over the lines, in order.
format_all(ls, name_str) ==
    IF ls = <<>> THEN <<>>
    ELSE IfNotEmpty(format_rules(Head(ls), name_str))
            \o format_all(Tail(ls), name_str)

\* ------------------------------------------------------------------------
\* State
\* ------------------------------------------------------------------------

VARIABLES
    \* dedup_and_paginate (utils/paginate.rs)
    items,          \* the input Vec<T>
    page_size,      \* the page_size argument
    pg_pc,          \* position: "dedup", "chunk", "name", "done", "panic"
    idx,            \* index of the next input item of the dedup loop
    seen,           \* HashSet of the hashes seen
    unique_items,   \* the deduplicated Vec<T>
    name_counts,    \* HashMap<String, usize>
    pages,          \* the Vec<Page<T>> built so far
    chunk_start,    \* offset in unique_items of the current chunk
    chunk_items,    \* `items` of the loop body: chunk.to_vec()
    names,          \* `names` of the loop body
    k,              \* index of the next item of the chunk
    \* download_multi_threaded (build/download.rs)
    resource,       \* the bytes the server holds at the url
    thread,         \* the thread argument
    dl_pc,          \* position of the function: "head", "spawn", "await",
                    \* "ok" (returned Ok), "err" (returned Err), "panic"
    total_size,     \* the parsed content-length
    chunk_size,     \* total_size / thread
    buffer,         \* the shared Vec<u8> behind Arc<Mutex<..>>
    lock,           \* holder of the buffer mutex: a task index, or -1
    spawned,        \* number of range tasks spawned so far
    awaited,        \* number of handles awaited so far
    task,           \* per range task: pc, start, end, reply, bytes
    written,        \* history: per buffer position, the tasks that wrote it
    requests,       \* history: number of range requests sent
    dl_result,      \* the Vec<u8> returned with Ok
    \* build_rules (build/rules.rs)
    ruleset,        \* the Vec<RuleSet> read from the ini file
    remote,         \* per url, how its download ends and the bytes served
    local_file,     \* per local rule path, the file's text (an Option)
    cache,          \* per file name in save_rules_dir, the bytes (an Option)
    br_pc,          \* position of build_rules: "download", "push", "done"
    results,        \* per download task: pending, its RuleSets, or panicked
    cursor,         \* per download result, the next line to push
    line_rules,     \* the shared Vec<String> behind Arc<Mutex<..>>
    sorted_and_unique,  \* the rule list build_rules returns
    rules_count,    \* the count build_rules returns
    \* calls of extraction_rules, format_rules, process_final_rules
    ex_value,       \* the candidate value a line holds
    ex_wrap,        \* the way the value stands on the line
    ex_name,        \* the name_str argument
    ex_template,    \* the final_rule of a ruleset entry
    ex_pc,          \* "line", "extracted", "formatted", "done"
    ex_rule,        \* what extraction_rules returned
    ex_tagged,      \* what format_rules returned
    ex_final,       \* what process_final_rules returned
    \* calls of sort_rules (build/sort.rs)
    so_lines,       \* the lines argument
    so_tuples,      \* the Vec of (type_part, ip_sort_key, key_part, line)
    so_pc,          \* "lines", "tuples", "sorted", "done"
    so_result,      \* the Vec<String> returned
    \* calls of save_net_file (build/download.rs)
    fs_files,       \* the file at file_path (an Option of its bytes)
    fs_content,     \* the net_content of the last call
    fs_pc,          \* "start", "returned", "panicked": how the last call ended
    fs_message,     \* which of its four messages the last call returned
    fs_wrote,       \* whether the last call reached fs::write
    fs_before,      \* the file as the last call found it
    fs_prev,        \* the net_content of the call before, when it returned
    fs_calls,       \* number of calls so far
    \* main from read_ini on, with modify_proxy_groups (build/ini.rs)
    mn_groups,      \* pending_proxy_group
    mn_rulesets,    \* ruleset_names
    mn_pages,       \* per page of nodes, its names
    mn_sources,     \* number of remote rule sources of the ruleset
    mn_pc,          \* "ini", "pages", "write", "done", "panicked"
    mn_page,        \* the page of the loop
    mn_downloads,   \* history: number of rule sources downloaded
    mn_cache_writes,    \* history: number of cache files written
    mn_outputs,     \* history: number of output files made
    mn_emitted      \* the groups modify_proxy_groups returned last

pgVars ==
    << items, page_size, pg_pc, idx, seen, unique_items, name_counts, pages,
       chunk_start, chunk_items, names, k >>

dlVars ==
    << resource, thread, dl_pc, total_size, chunk_size, buffer, lock, spawned,
       awaited, task, written, requests, dl_result >>

brVars ==
    << ruleset, remote, local_file, cache, br_pc, results, cursor, line_rules,
       sorted_and_unique, rules_count >>

exVars ==
    << ex_value, ex_wrap, ex_name, ex_template, ex_pc, ex_rule, ex_tagged,
       ex_final >>

soVars == << so_lines, so_tuples, so_pc, so_result >>

fsVars ==
    << fs_files, fs_content, fs_pc, fs_message, fs_wrote, fs_before, fs_prev,
       fs_calls >>

mnVars ==
    << mn_groups, mn_rulesets, mn_pages, mn_sources, mn_pc, mn_page,
       mn_downloads, mn_cache_writes, mn_outputs, mn_emitted >>

vars == << pgVars, dlVars, brVars, exVars, soVars, fsVars, mnVars >>

\* What each of the functions leaves alone.
notPgVars == << dlVars, brVars, exVars, soVars, fsVars, mnVars >>
notDlVars == << pgVars, brVars, exVars, soVars, fsVars, mnVars >>
notBrVars == << pgVars, dlVars, exVars, soVars, fsVars, mnVars >>
notExVars == << pgVars, dlVars, brVars, soVars, fsVars, mnVars >>
notSoVars == << pgVars, dlVars, brVars, exVars, fsVars, mnVars >>
notFsVars == << pgVars, dlVars, brVars, exVars, soVars, mnVars >>
notMnVars == << pgVars, dlVars, brVars, exVars, soVars, fsVars >>

\* ------------------------------------------------------------------------
\* dedup_and_paginate
\* ------------------------------------------------------------------------

\* Largest number of input items and largest page size of the model.
MaxItems == 3
MaxPageSize == 2

NameA == <<"A">>
NameB == <<"B">>
ServerKey == <<"s", "e", "r", "v", "e", "r">>
PortKey == <<"p", "o", "r", "t">>
OptsKey == <<"o", "p", "t", "s">>
HostKey == <<"h", "o", "s", "t">>
PathKey == <<"p", "a", "t", "h">>
TrueText == <<"t", "r", "u", "e">>

\* The proxy-node records the inputs are drawn from.
Node1 == YMap(<< <<NameKey, YStr(NameA)>>, <<ServerKey, YStr(<<"s", "1">>)>>,
                 <<PortKey, YInt(<<"1">>)>> >>)
\* Node1 under another name, another field order and with an ignored field
Node1Alias == YMap(<< <<PortKey, YInt(<<"1">>)>>, <<SkipCertKey, YBool(TrueText)>>,
                      <<ServerKey, YStr(<<"s", "1">>)>>, <<NameKey, YStr(NameB)>> >>)
\* the port as a string instead of a number; same name as Node1
Node2 == YMap(<< <<NameKey, YStr(NameA)>>, <<ServerKey, YStr(<<"s", "1">>)>>,
                 <<PortKey, YStr(<<"1">>)>> >>)
\* a nested mapping; same name as Node1
Node3 == YMap(<< <<NameKey, YStr(NameA)>>, <<ServerKey, YStr(<<"s", "3">>)>>,
                 <<OptsKey, YMap(<< <<PathKey, YStr(<<"/">>)>>,
                                    <<HostKey, YStr(<<"h">>)>> >>)>> >>)
\* Node3 with the nested fields in the other order
Node3Alias == YMap(<< <<OptsKey, YMap(<< <<HostKey, YStr(<<"h">>)>>,
                                         <<PathKey, YStr(<<"/">>)>> >>)>>,
                      <<ServerKey, YStr(<<"s", "3">>)>>, <<NameKey, YStr(NameA)>> >>)
\* a node whose name is the name a second "A" is rewritten to
Node4 == YMap(<< <<NameKey, YStr(new_name(NameA))>>, <<ServerKey, YStr(<<"s", "4">>)>> >>)
\* a node without a name field
Node5 == YMap(<< <<ServerKey, YStr(<<"s", "5">>)>>,
                 <<PortKey, YSeq(<< YInt(<<"1">>), YInt(<<"2">>) >>)>> >>)
\* a node whose name is not a string
Node6 == YMap(<< <<NameKey, YInt(<<"6">>)>>, <<ServerKey, YStr(<<"s", "6">>)>> >>)

NodePool == { Node1, Node1Alias, Node2, Node3, Node3Alias, Node4, Node5, Node6 }

\* dedup_and_paginate not running.
PgIdle ==
    /\ items = <<>>
    /\ page_size = 0
    /\ pg_pc = "idle"
    /\ idx = 1
    /\ seen = {}
    /\ unique_items = <<>>
    /\ name_counts = <<>>
    /\ pages = <<>>
    /\ chunk_start = 0
    /\ chunk_items = <<>>
    /\ names = <<>>
    /\ k = 1

PgInit ==
    /\ items \in SeqsUpTo(NodePool, MaxItems)
    /\ page_size \in 0..MaxPageSize
    /\ pg_pc = "dedup"
    /\ idx = 1
    /\ seen = {}
    /\ unique_items = <<>>
    /\ name_counts = <<>>
    /\ pages = <<>>
    /\ chunk_start = 0
    /\ chunk_items = <<>>
    /\ names = <<>>
    /\ k = 1

\* Mutant of DedupStep: the item is pushed whether or not its hash is new.
DedupStep_KeepAll ==
    /\ pg_pc = "dedup"
    /\ idx <= Len(items)
    /\ seen' = seen \cup {compute_hash(items[idx], fields_to_remove)}
    /\ unique_items' = Append(unique_items, items[idx])
    /\ idx' = idx + 1
    /\ UNCHANGED << items, page_size, pg_pc, name_counts, pages, chunk_start,
                    chunk_items, names, k >>
    /\ UNCHANGED notPgVars

\* One iteration of `for item in items`: keep the item when its hash is new.
DedupStep ==
    /\ pg_pc = "dedup"
    /\ idx <= Len(items)
    /\ LET hash == compute_hash(items[idx], fields_to_remove)
       IN  /\ seen' = seen \cup {hash}
           /\ unique_items' = IF hash \in seen THEN unique_items
                              ELSE Append(unique_items, items[idx])
    /\ idx' = idx + 1
    /\ UNCHANGED << items, page_size, pg_pc, name_counts, pages, chunk_start,
                    chunk_items, names, k >>
    /\ UNCHANGED notPgVars

\* End of the dedup loop: unique_items.chunks(page_size) panics for a chunk
\* size of zero.
DedupDone ==
    /\ pg_pc = "dedup"
    /\ idx > Len(items)
    /\ pg_pc' = IF page_size = 0 THEN "panic" ELSE "chunk"
    /\ UNCHANGED << items, page_size, idx, seen, unique_items, name_counts, pages,
                    chunk_start, chunk_items, names, k >>
    /\ UNCHANGED notPgVars

\* Mutant of NextChunk: the name counters start afresh on every page.
NextChunk_ResetCounts ==
    /\ pg_pc = "chunk"
    /\ IF chunk_start >= Len(unique_items)
       THEN /\ pg_pc' = "done"
            /\ UNCHANGED << chunk_items, names, k, name_counts >>
       ELSE /\ chunk_items' = SubSeq(unique_items, chunk_start + 1,
                                     Min(chunk_start + page_size, Len(unique_items)))
            /\ names' = <<>>
            /\ k' = 1
            /\ name_counts' = <<>>
            /\ pg_pc' = "name"
    /\ UNCHANGED << items, page_size, idx, seen, unique_items, pages, chunk_start >>
    /\ UNCHANGED notPgVars

\* chunks(page_size).next(): the next window of at most page_size items, or
\* the end of the loop and the return of pages.
NextChunk ==
    /\ pg_pc = "chunk"
    /\ IF chunk_start >= Len(unique_items)
       THEN /\ pg_pc' = "done"
            /\ UNCHANGED << chunk_items, names, k >>
       ELSE /\ chunk_items' = SubSeq(unique_items, chunk_start + 1,
                                     Min(chunk_start + page_size, Len(unique_items)))
            /\ names' = <<>>
            /\ k' = 1
            /\ pg_pc' = "name"
    /\ UNCHANGED << items, page_size, idx, seen, unique_items, name_counts, pages,
                    chunk_start >>
    /\ UNCHANGED notPgVars

\* name_counts.entry(name).or_insert(0)
CountOf(counts, name) == IF name \in DOMAIN counts THEN counts[name] ELSE 0

\* One iteration of `for item in items.iter_mut()`.
NameStep ==
    /\ pg_pc = "name"
    /\ k <= Len(chunk_items)
    /\ LET item == chunk_items[k]
           opt == extract_name(item)
       IN  IF opt # <<>>
           THEN LET name == opt[1]
                    count == CountOf(name_counts, name)
                IN  /\ IF count > 0
                       THEN /\ chunk_items' =
                                 [chunk_items EXCEPT ![k] = set_name(item, new_name(name))]
                            /\ names' = Append(names, new_name(name))
                       ELSE /\ names' = Append(names, name)
                            /\ UNCHANGED chunk_items
                    /\ name_counts' =
                          [n \in (DOMAIN name_counts) \cup {name} |->
                              IF n = name THEN count + 1 ELSE name_counts[n]]
           ELSE UNCHANGED << chunk_items, names, name_counts >>
    /\ k' = k + 1
    /\ UNCHANGED << items, page_size, pg_pc, idx, seen, unique_items, pages,
                    chunk_start >>
    /\ UNCHANGED notPgVars

\* Mutant of PushPage: the next window starts one item later (windows that
\* overlap) instead of page_size items later.
PushPage_Sliding ==
    /\ pg_pc = "name"
    /\ k > Len(chunk_items)
    /\ pages' = Append(pages, [items |-> chunk_items, names |-> names])
    /\ chunk_start' = chunk_start + 1
    /\ pg_pc' = "chunk"
    /\ UNCHANGED << items, page_size, idx, seen, unique_items, name_counts,
                    chunk_items, names, k >>
    /\ UNCHANGED notPgVars

\* pages.push(Page { items, names })
PushPage ==
    /\ pg_pc = "name"
    /\ k > Len(chunk_items)
    /\ pages' = Append(pages, [items |-> chunk_items, names |-> names])
    /\ chunk_start' = chunk_start + page_size
    /\ pg_pc' = "chunk"
    /\ UNCHANGED << items, page_size, idx, seen, unique_items, name_counts,
                    chunk_items, names, k >>
    /\ UNCHANGED notPgVars

PgNext == DedupStep \/ DedupDone \/ NextChunk \/ NameStep \/ PushPage

\* ------------------------------------------------------------------------
\* Properties of dedup_and_paginate
\* ------------------------------------------------------------------------

\* The items and the names of all pages, in page order.
AllItems == Flatten([p \in 1..Len(pages) |-> pages[p].items])
AllNames == Flatten([p \in 1..Len(pages) |-> pages[p].names])

DedupHash(item) == compute_hash(item, fields_to_remove)

\* The index of the earliest input item with the dedup hash of `item`.
FirstOfClass(item) ==
    CHOOSE i \in 1..Len(items) :
        /\ DedupHash(items[i]) = DedupHash(item)
        /\ \A j \in 1..(i - 1) : DedupHash(items[j]) # DedupHash(item)

\* `out` is the input item `in`, as it is or with its name rewritten.
IsRetainedFrom(out, in) ==
    \/ out = in
    \/ /\ extract_name(in) # <<>>
       /\ out = set_name(in, new_name(extract_name(in)[1]))

\* C5: the pages together hold exactly the first item of every dedup-hash
\* class of the input: no hash twice, every input hash once, the item kept is
\* the earliest input item of its class, and the kept items are in input
\* order.
C5_DedupKeepsFirst ==
    pg_pc = "done" =>
        /\ \A p, q \in 1..Len(AllItems) :
              p # q => DedupHash(AllItems[p]) # DedupHash(AllItems[q])
        /\ \A i \in 1..Len(items) :
              \E p \in 1..Len(AllItems) : DedupHash(AllItems[p]) = DedupHash(items[i])
        /\ \A p \in 1..Len(AllItems) :
              /\ \E i \in 1..Len(items) : DedupHash(items[i]) = DedupHash(AllItems[p])
              /\ IsRetainedFrom(AllItems[p], items[FirstOfClass(AllItems[p])])
        /\ \A p, q \in 1..Len(AllItems) :
              p < q => FirstOfClass(AllItems[p]) < FirstOfClass(AllItems[q])

\* C5 witness: a finished run in which a later item of a class was dropped
\* and a later item of another class was kept.
C5_Witness ==
    /\ pg_pc = "done"
    /\ Len(items) = 3
    /\ Len(AllItems) = 2
    /\ DedupHash(items[1]) = DedupHash(items[2])
    /\ items[1] # items[2]

RECURSIVE IdentityView(_, _)
\* What the claim calls the identity of a record: its fields as an unordered
\* set (a sequence keeps its positions), without the ignored top-level
\* fields.  Defined on the input value, independently of compute_hash.
IdentityView(v, ignored) ==
    [kind |-> v.kind,
     text |-> v.text,
     members |->
        { << IF v.kind = "mapping" THEN v.fields[i][1] ELSE << CHARSET[i + 1] >>,
             IdentityView(v.fields[i][2], {}) >> :
          i \in { j \in 1..Len(v.fields) : v.fields[j][1] \notin ignored } }]

SameIdentity(a, b) ==
    IdentityView(a, Range(fields_to_remove)) = IdentityView(b, Range(fields_to_remove))

\* C6: input records that differ only in field order and in the ignored
\* fields are one identity, of which only the first encountered is retained;
\* records that differ in any other field are retained separately.
C6_IdentityIgnoresOrderAndIgnoredFields ==
    pg_pc = "done" =>
        \A i, j \in 1..Len(items) :
            i < j =>
                IF SameIdentity(items[i], items[j])
                THEN /\ Cardinality({ p \in 1..Len(AllItems) :
                                        SameIdentity(AllItems[p], items[i]) }) = 1
                     /\ \A p \in 1..Len(AllItems) :
                           SameIdentity(AllItems[p], items[j]) =>
                               \E f \in 1..i :
                                   /\ IsRetainedFrom(AllItems[p], items[f])
                                   /\ \A g \in 1..(f - 1) : ~SameIdentity(items[g], items[f])
                ELSE \E p, q \in 1..Len(AllItems) :
                        /\ p # q
                        /\ SameIdentity(AllItems[p], items[i])
                        /\ SameIdentity(AllItems[q], items[j])

\* C6 witness: the input holds a record, then the same record under another
\* name, field order and ignored field, then a record differing in the port
\* value; two are retained.
C6_Witness ==
    /\ pg_pc = "done"
    /\ items = << Node1, Node1Alias, Node2 >>
    /\ AllItems = << Node1, set_name(Node2, new_name(NameA)) >>

\* The name field of every item that has a string name.
ItemNames(its) == Flatten([i \in 1..Len(its) |-> extract_name(its[i])])

NoDuplicates(s) == \A i, j \in 1..Len(s) : i # j => s[i] # s[j]

\* C7: the names recorded across all pages, and the name fields of the items,
\* are pairwise distinct.
C7_NamesPairwiseDistinct ==
    pg_pc = "done" => NoDuplicates(AllNames) /\ NoDuplicates(ItemNames(AllItems))

\* C8: one counter per name over the whole deduplicated sequence: the first
\* retained item with a name keeps it, every later one (on any page) has its
\* name field set to <name>-<short_id(name)>, which differs from the name.
C8_GlobalCounterRename ==
    pg_pc = "done" =>
        /\ Len(AllItems) = Len(unique_items)
        /\ \A p \in 1..Len(unique_items) :
              LET orig == extract_name(unique_items[p])
              IN  IF orig = <<>>
                  THEN AllItems[p] = unique_items[p]
                  ELSE IF \E q \in 1..(p - 1) : extract_name(unique_items[q]) = orig
                       THEN /\ extract_name(AllItems[p])
                                 = << orig[1] \o <<"-">> \o short_id(orig[1]) >>
                            /\ extract_name(AllItems[p]) # orig
                            /\ AllItems[p] = set_name(unique_items[p], new_name(orig[1]))
                       ELSE AllItems[p] = unique_items[p]

\* C8 witness: a finished run with two pages where an item of the second page
\* was renamed because its name first occurred on the first page.
C8_Witness ==
    /\ pg_pc = "done"
    /\ Len(pages) = 2
    /\ extract_name(unique_items[1]) = << NameA >>
    /\ extract_name(unique_items[Len(unique_items)]) = << NameA >>
    /\ \A i \in 1..Len(pages[2].items) :
          extract_name(unique_items[page_size + i]) = << NameA >>
    /\ \A i \in 1..Len(pages[2].items) :
          extract_name(pages[2].items[i]) = << new_name(NameA) >>

\* C9 as stated: in every page names is as long as items and names[i] is the
\* name of items[i].
C9_NamesAlignedWithItems ==
    pg_pc = "done" =>
        \A p \in 1..Len(pages) :
            /\ Len(pages[p].names) = Len(pages[p].items)
            /\ \A i \in 1..Len(pages[p].items) :
                  /\ i <= Len(pages[p].names)
                  /\ extract_name(pages[p].items[i]) = << pages[p].names[i] >>

\* C9 amended: in every page names is the sequence of the (possibly
\* rewritten) names of those items of the page that have a string name, in
\* item order; an item without a name field or with a name that is not a
\* string has no entry in names.
C9_NamesOfNamedItems ==
    pg_pc = "done" =>
        \A p \in 1..Len(pages) :
            /\ pages[p].names = ItemNames(pages[p].items)
            /\ Len(pages[p].names)
                  = Cardinality({ i \in 1..Len(pages[p].items) :
                                    extract_name(pages[p].items[i]) # <<>> })

\* C9 witness: a finished run with a page that holds a nameless item and a
\* renamed item.
C9_Witness ==
    /\ pg_pc = "done"
    /\ \E p \in 1..Len(pages) :
          /\ Len(pages[p].names) < Len(pages[p].items)
          /\ new_name(NameA) \in Range(pages[p].names)

\* Number of pages of n items in windows of size s.
PageCount(n, s) == (n + s - 1) \div s

\* C10: for page_size >= 1 the pages are the consecutive windows of
\* page_size items of the deduplicated sequence, the last one possibly
\* shorter, none empty.
C10_PagesAreFixedSizeWindows ==
    (pg_pc = "done" /\ page_size >= 1) =>
        /\ Len(pages) = PageCount(Len(unique_items), page_size)
        /\ \A p \in 1..Len(pages) :
              /\ Len(pages[p].items) >= 1
              /\ Len(pages[p].items) <= page_size
              /\ p < Len(pages) => Len(pages[p].items) = page_size
        /\ Len(AllItems) = Len(unique_items)
        /\ \A g \in 1..Len(unique_items) :
              LET p == ((g - 1) \div page_size) + 1
                  i == ((g - 1) % page_size) + 1
              IN  /\ i <= Len(pages[p].items)
                  /\ IsRetainedFrom(pages[p].items[i], unique_items[g])

\* C10 witness: a finished run with a full page followed by a shorter one.
C10_Witness ==
    /\ pg_pc = "done"
    /\ page_size = 2
    /\ Len(pages) = 2
    /\ Len(pages[1].items) = 2
    /\ Len(pages[2].items) = 1

\* ------------------------------------------------------------------------
\* build/download.rs : download_multi_threaded
\* ------------------------------------------------------------------------

\* Largest resource size and largest thread argument of the model.
MaxSize == 4
MaxThread == 3

\* A u64 is modelled by the integer congruent to it modulo 2^64 that is
\* nearest to zero: a negative integer -n stands for 2^64 - n, the value a
\* wrapping subtraction below zero leaves.

\* let start = (i as u64) * chunk_size;
RangeStart(i, chunk) == i * chunk

\* Mutant of RangeEnd: the end bound of a range is the start of the next one.
RangeEnd_Overlap(i, threads, total, chunk) ==
    IF i = threads - 1 THEN total - 1 ELSE (i + 1) * chunk

\* The end bound with subtractions that stop at zero.
RangeEnd_Saturating(i, threads, total, chunk) ==
    IF i = threads - 1
    THEN (IF total = 0 THEN 0 ELSE total - 1)
    ELSE (IF (i + 1) * chunk = 0 THEN 0 ELSE (i + 1) * chunk - 1)

\* let end = if i == thread - 1 { total_size - 1 }
\*           else { ((i + 1) as u64) * chunk_size - 1 };
RangeEnd(i, threads, total, chunk) ==
    IF i = threads - 1 THEN total - 1 ELSE (i + 1) * chunk - 1

\* The body a server that honours `Range: bytes=start-end` sends: the bytes
\* start..=end of the resource, the end clamped to the last byte; nothing
\* when the range starts past the end.
ExactBody(res, start, end) ==
    LET last == IF end < 0 \/ end >= Len(res) THEN Len(res) - 1 ELSE end
    IN  IF start > last THEN <<>> ELSE SubSeq(res, start + 1, last + 1)

\* The bodies a range request may be answered with: the exact range, the
\* whole resource (a server that ignores Range), a truncated range, or as
\* many bytes as asked for but from the start of the resource.
Bodies(res, start, end) ==
    LET exact == ExactBody(res, start, end)
    IN  { exact, res, Take(exact, Len(exact) - 1), Take(res, Len(exact)) }

\* buffer[start as usize..=end as usize] is a slice of the buffer: the end
\* is not usize::MAX, start <= end + 1 and end + 1 <= len; otherwise the
\* indexing panics.
SliceOk(start, end, len) == end >= 0 /\ start <= end + 1 /\ end + 1 <= len

\* The task record of a range task that was not spawned.
NoTask == [pc |-> "none", start |-> 0, end |-> 0, reply |-> "none", bytes |-> <<>>]

Tasks == 0..(MaxThread - 1)

\* download_multi_threaded not running.
DlIdle ==
    /\ resource = <<>>
    /\ thread = 0
    /\ dl_pc = "idle"
    /\ total_size = 0
    /\ chunk_size = 0
    /\ buffer = <<>>
    /\ lock = -1
    /\ spawned = 0
    /\ awaited = 0
    /\ task = [i \in Tasks |-> NoTask]
    /\ written = <<>>
    /\ requests = 0
    /\ dl_result = <<>>

\* A call download_multi_threaded(url, thread) against a server holding
\* `resource`; byte p of the resource has the value p + 1, so every byte
\* differs from the buffer's initial 0 and from every other byte.
DlInit ==
    /\ resource \in { [p \in 1..n |-> p] : n \in 0..MaxSize }
    /\ thread \in 0..MaxThread
    /\ dl_pc = "head"
    /\ total_size = 0
    /\ chunk_size = 0
    /\ buffer = <<>>
    /\ lock = -1
    /\ spawned = 0
    /\ awaited = 0
    /\ task = [i \in Tasks |-> NoTask]
    /\ written = <<>>
    /\ requests = 0
    /\ dl_result = <<>>

\* The outcomes of the HEAD request and of reading content-length.
HeadReplies == { "length", "request error", "no header", "not a number" }

\* The HEAD request with a content-length that is missing or no number read
\* as a length of zero.
HeadReply_DefaultLength(reply) ==
    /\ dl_pc = "head"
    /\ IF reply = "request error"
       THEN /\ dl_pc' = "err"
            /\ UNCHANGED << total_size, buffer, written, chunk_size >>
       ELSE /\ total_size' = (IF reply = "length" THEN Len(resource) ELSE 0)
            /\ buffer' = [p \in 1..total_size' |-> 0]
            /\ written' = [p \in 1..total_size' |-> {}]
            /\ IF thread = 0
               THEN /\ dl_pc' = "panic"
                    /\ UNCHANGED chunk_size
               ELSE /\ chunk_size' = total_size' \div thread
                    /\ dl_pc' = "spawn"
    /\ UNCHANGED << resource, thread, lock, spawned, awaited, task, requests, dl_result >>
    /\ UNCHANGED notDlVars

\* client.head(url).send().await? ... .parse::<u64>()?, then the buffer
\* vec![0u8; total_size] and chunk_size = total_size / thread (a panic for
\* thread = 0).
HeadReply(reply) ==
    /\ dl_pc = "head"
    /\ IF reply = "length"
       THEN /\ total_size' = Len(resource)
            /\ buffer' = [p \in 1..Len(resource) |-> 0]
            /\ written' = [p \in 1..Len(resource) |-> {}]
            /\ IF thread = 0
               THEN /\ dl_pc' = "panic"
                    /\ UNCHANGED chunk_size
               ELSE /\ chunk_size' = Len(resource) \div thread
                    /\ dl_pc' = "spawn"
       ELSE /\ dl_pc' = "err"
            /\ UNCHANGED << total_size, buffer, written, chunk_size >>
    /\ UNCHANGED << resource, thread, lock, spawned, awaited, task, requests, dl_result >>
    /\ UNCHANGED notDlVars

\* The HEAD request under one of its outcomes.
HeadRequest == \E reply \in HeadReplies : HeadReply(reply)

\* One iteration of `for i in 0..thread`: the range of task i and its spawn.
Spawn ==
    /\ dl_pc = "spawn"
    /\ spawned < thread
    /\ task' = [task EXCEPT ![spawned] =
                  [pc |-> "request",
                   start |-> RangeStart(spawned, chunk_size),
                   end |-> RangeEnd(spawned, thread, total_size, chunk_size),
                   reply |-> "none", bytes |-> <<>>]]
    /\ spawned' = spawned + 1
    /\ dl_pc' = IF spawned + 1 = thread THEN "await" ELSE "spawn"
    /\ UNCHANGED << resource, thread, total_size, chunk_size, buffer, lock, awaited,
                    written, requests, dl_result >>
    /\ UNCHANGED notDlVars

\* Task i: the range request and its body, or an error (`?` ends the task).
TaskRequest(i) ==
    /\ task[i].pc = "request"
    /\ requests' = requests + 1
    /\ \/ task' = [task EXCEPT ![i].pc = "err", ![i].reply = "error"]
       \/ \E body \in Bodies(resource, task[i].start, task[i].end) :
             task' = [task EXCEPT ![i].pc = "fetched", ![i].reply = "body",
                                  ![i].bytes = body]
    /\ UNCHANGED << resource, thread, dl_pc, total_size, chunk_size, buffer, lock,
                    spawned, awaited, written, dl_result >>
    /\ UNCHANGED notDlVars

\* Task i: buffer.lock().await
TaskLock(i) ==
    /\ task[i].pc = "fetched"
    /\ lock = -1
    /\ lock' = i
    /\ task' = [task EXCEPT ![i].pc = "locked"]
    /\ UNCHANGED << resource, thread, dl_pc, total_size, chunk_size, buffer, spawned,
                    awaited, written, requests, dl_result >>
    /\ UNCHANGED notDlVars

\* Mutant of TaskCopy: the body is copied to the start of the buffer.
TaskCopy_AtZero(i) ==
    /\ task[i].pc = "locked"
    /\ LET t == task[i]
       IN  IF SliceOk(t.start, t.end, Len(buffer)) /\ Len(t.bytes) = t.end - t.start + 1
           THEN /\ buffer' = [p \in 1..Len(buffer) |->
                                IF p <= Len(t.bytes) THEN t.bytes[p] ELSE buffer[p]]
                /\ written' = [p \in 1..Len(buffer) |->
                                IF p <= Len(t.bytes) THEN written[p] \cup {i}
                                ELSE written[p]]
                /\ task' = [task EXCEPT ![i].pc = "ok"]
           ELSE /\ task' = [task EXCEPT ![i].pc = "panic"]
                /\ UNCHANGED << buffer, written >>
    /\ lock' = -1
    /\ UNCHANGED << resource, thread, dl_pc, total_size, chunk_size, spawned, awaited,
                    requests, dl_result >>
    /\ UNCHANGED notDlVars

\* Task i under the lock: buffer[start..=end].copy_from_slice(&bytes), which
\* panics when the slice is out of range or the lengths differ; the guard is
\* dropped either way.
TaskCopy(i) ==
    /\ task[i].pc = "locked"
    /\ LET t == task[i]
       IN  IF SliceOk(t.start, t.end, Len(buffer)) /\ Len(t.bytes) = t.end - t.start + 1
           THEN /\ buffer' = [p \in 1..Len(buffer) |->
                                IF t.start < p /\ p <= t.end + 1
                                THEN t.bytes[p - t.start] ELSE buffer[p]]
                /\ written' = [p \in 1..Len(buffer) |->
                                IF t.start < p /\ p <= t.end + 1
                                THEN written[p] \cup {i} ELSE written[p]]
                /\ task' = [task EXCEPT ![i].pc = "ok"]
           ELSE /\ task' = [task EXCEPT ![i].pc = "panic"]
                /\ UNCHANGED << buffer, written >>
    /\ lock' = -1
    /\ UNCHANGED << resource, thread, dl_pc, total_size, chunk_size, spawned, awaited,
                    requests, dl_result >>
    /\ UNCHANGED notDlVars

\* Mutant of Await: the result of a handle is dropped (`let _ = handle.await`).
Await_IgnoreErrors ==
    /\ dl_pc = "await"
    /\ awaited < thread
    /\ task[awaited].pc \in { "ok", "err", "panic" }
    /\ awaited' = awaited + 1
    /\ IF awaited + 1 = thread
       THEN dl_pc' = "ok" /\ dl_result' = buffer
       ELSE UNCHANGED << dl_pc, dl_result >>
    /\ UNCHANGED << resource, thread, total_size, chunk_size, buffer, lock, spawned,
                    task, written, requests >>
    /\ UNCHANGED notDlVars

\* One iteration of `for handle in handles { handle.await??; }`: the handles
\* are awaited in spawn order; an Err or a panic of the task returns Err; after
\* the last handle the buffer is unwrapped and returned.
Await ==
    /\ dl_pc = "await"
    /\ awaited < thread
    /\ task[awaited].pc \in { "ok", "err", "panic" }
    /\ IF task[awaited].pc = "ok"
       THEN /\ awaited' = awaited + 1
            /\ IF awaited + 1 = thread
               THEN dl_pc' = "ok" /\ dl_result' = buffer
               ELSE UNCHANGED << dl_pc, dl_result >>
       ELSE /\ dl_pc' = "err"
            /\ UNCHANGED << awaited, dl_result >>
    /\ UNCHANGED << resource, thread, total_size, chunk_size, buffer, lock, spawned,
                    task, written, requests >>
    /\ UNCHANGED notDlVars

DlNext ==
    \/ HeadRequest
    \/ Spawn
    \/ \E i \in Tasks : TaskRequest(i)
    \/ \E i \in Tasks : TaskLock(i)
    \/ \E i \in Tasks : TaskCopy(i)
    \/ Await

\* ------------------------------------------------------------------------
\* Properties of download_multi_threaded
\* ------------------------------------------------------------------------

\* The buffer positions (0-based) of the range of task i.
RangeOf(i) == { p \in 0..(total_size - 1) : task[i].start <= p /\ p <= task[i].end }

\* The reply of task i is a body holding exactly the bytes of its range.
ExactReply(i) ==
    /\ task[i].reply = "body"
    /\ task[i].bytes = [p \in 1..(task[i].end - task[i].start + 1) |->
                           resource[task[i].start + p]]

\* The range request of task i failed: a request error, or a body whose
\* length is not the length of the requested range.
RangeFailed(i) ==
    \/ task[i].reply = "error"
    \/ /\ task[i].reply = "body"
       /\ Len(task[i].bytes) # task[i].end - task[i].start + 1

\* C2: for 1 <= thread <= total_size no buffer position is written by two
\* tasks, and when every range request was answered with exactly the bytes of
\* its range the returned buffer equals the resource, each position written
\* once, whatever the order of the tasks.
C2_BufferEqualsResource ==
    (1 <= thread /\ thread <= total_size) =>
        /\ \A p \in 1..Len(written) : Cardinality(written[p]) <= 1
        /\ (dl_pc = "ok" /\ \A i \in 0..(thread - 1) : ExactReply(i)) =>
              /\ dl_result = resource
              /\ \A p \in 1..Len(written) : Cardinality(written[p]) = 1

\* C2 witness: three tasks over four bytes returned the whole resource.
C2_Witness ==
    /\ dl_pc = "ok"
    /\ thread = 3
    /\ total_size = 4
    /\ \A i \in 0..2 : ExactReply(i)
    /\ dl_result = << 1, 2, 3, 4 >>

\* C3: for 1 <= thread <= total_size the ranges of the spawned tasks are
\* contiguous, non-empty and pairwise disjoint, all but the last of length
\* floor(total_size / thread), the last ending at total_size - 1; once all
\* are spawned they cover exactly [0, total_size).
C3_RangesPartitionResource ==
    (1 <= thread /\ thread <= total_size) =>
        /\ spawned >= 1 => task[0].start = 0
        /\ \A i \in 0..(spawned - 1) :
              /\ task[i].start <= task[i].end
              /\ i >= 1 => task[i].start = task[i - 1].end + 1
              /\ i < thread - 1 =>
                    task[i].end - task[i].start + 1 = total_size \div thread
              /\ i = thread - 1 => task[i].end = total_size - 1
        /\ \A i, j \in 0..(spawned - 1) : i # j => RangeOf(i) \cap RangeOf(j) = {}
        /\ spawned = thread =>
              UNION { RangeOf(i) : i \in 0..(thread - 1) } = 0..(total_size - 1)

\* C3 witness: three ranges over four bytes, the last one absorbing the
\* remainder.
C3_Witness ==
    /\ spawned = 3
    /\ thread = 3
    /\ total_size = 4
    /\ task[2].start = 2
    /\ task[2].end = 3

\* C4: once a range request has failed the function never returns Ok and
\* never hands out a buffer, and when nothing more can run it has returned
\* Err.
C4_FailedRangeFailsFetch ==
    (\E i \in 0..(thread - 1) : RangeFailed(i)) =>
        /\ dl_pc # "ok"
        /\ dl_result = <<>>
        /\ ~(ENABLED DlNext) => dl_pc = "err"

\* C4 witness: Err was returned after one task got a body of the wrong
\* length while another task had already written its range into the buffer.
C4_Witness ==
    /\ dl_pc = "err"
    /\ \E i, j \in 0..(thread - 1) :
          /\ task[i].reply = "body"
          /\ RangeFailed(i)
          /\ task[j].pc = "ok"
          /\ \E p \in 1..Len(buffer) : buffer[p] # 0
    /\ dl_result = <<>>

\* The HEAD replies under which the server reports no exact byte length.
NoLengthReplies == { "no header", "not a number" }

\* C24: when the HEAD response has no content-length header, or one that is
\* no unsigned number, download_multi_threaded returns an error: no range
\* task is spawned, no range request is sent and no buffer is returned, then
\* or later.
C24_NoLengthFailsBeforeRanges ==
    [][/\ \A reply \in NoLengthReplies :
             HeadReply(reply) =>
                (dl_pc' = "err" /\ spawned' = 0 /\ requests' = 0 /\ dl_result' = <<>>)
       /\ (dl_pc = "err" /\ spawned = 0) =>
             (requests' = 0 /\ spawned' = 0 /\ dl_result' = <<>> /\ dl_pc' = "err")]_vars

\* A call for a resource that is not empty, with a thread count above zero,
\* has ended in an error without a range task.
C24_Witness ==
    /\ dl_pc = "err"
    /\ Len(resource) > 0
    /\ thread > 0
    /\ spawned = 0
    /\ requests = 0
    /\ dl_result = <<>>

\* The range tasks spawned so far.
SpawnedTasks == { i \in Tasks : task[i].pc # "none" }

\* C25: when total_size is below the thread count the chunk size is zero;
\* every range starts at byte 0, so two ranges overlap; the end bound of
\* every range but the last, (i + 1) * chunk_size - 1, is below zero (the
\* u64 wraps), and so is total_size - 1, the end bound of the last range,
\* when total_size is 0: the ranges are no partition of [0, total_size).
C25_ZeroChunkRanges ==
    (dl_pc \in { "spawn", "await", "ok", "err" } /\ total_size < thread) =>
        /\ chunk_size = 0
        /\ \A i \in SpawnedTasks :
              /\ task[i].start = 0
              /\ i < thread - 1 => task[i].end < 0
              /\ i = thread - 1 => task[i].end = total_size - 1
              /\ total_size = 0 => task[i].end < 0

\* Three ranges over a resource of two bytes: 0..2^64-1 twice and 0..1.
C25_Witness ==
    /\ thread = 3
    /\ total_size = 2
    /\ chunk_size = 0
    /\ spawned = 3
    /\ task[0].end = -1
    /\ task[1].end = -1
    /\ task[2].start = 0
    /\ task[2].end = 1

\* ------------------------------------------------------------------------
\* build_rules, process_download_rules, process_local_rules
\* ------------------------------------------------------------------------

\* Largest number of ruleset entries of the model.
MaxRuleSets == 2

UrlA == <<"h", "t", "t", "p", ":", "/", "/", "h", "/", "a">>
UrlB == <<"h", "t", "t", "p", ":", "/", "/", "h", "/", "b">>
PathL == <<"l", ".", "t", "x", "t">>

\* A byte that is not part of any UTF-8 text.
InvalidByte == "0xFF"

\* RuleSet { rule_name, net_rule_path, local_rule_path, final_rule }: read_ini
\* fills one of the three paths and leaves the others empty.
NetRuleSet(name, url) ==
    [rule_name |-> name, net_rule_path |-> url, local_rule_path |-> <<>>,
     final_rule |-> <<>>]
LocalRuleSet(name, path) ==
    [rule_name |-> name, net_rule_path |-> <<>>, local_rule_path |-> path,
     final_rule |-> <<>>]
FinalRuleSet(name, rule) ==
    [rule_name |-> name, net_rule_path |-> <<>>, local_rule_path |-> <<>>,
     final_rule |-> rule]

\* The ruleset entries the inputs are drawn from.
RuleSetPool ==
    { NetRuleSet(<<"X">>, UrlA), NetRuleSet(<<"Y">>, UrlB),
      LocalRuleSet(<<"Z">>, PathL),
      FinalRuleSet(<<"W">>, <<"[", "]", "F", "I", "N", "A", "L">>),
      FinalRuleSet(<<"V">>, <<"[", "]", "G", "E", "O", "I", "P", ",", "C", "N", ",", "n", "o", "-", "r", "e", "s", "o", "l", "v", "e">>) }

\* Rule files: a plain list, a list naming a domain of the first with its
\* type and holding a comment, a YAML payload with CRLF line endings, and
\* bytes that are no UTF-8 text.
TextList == <<"a", ".", "c", "o", "m", "\n", "2", ".", "0", ".", "0", ".", "0", "/", "8", "\n">>
TextTyped == <<"D", "O", "M", "A", "I", "N", ",", "a", ".", "c", "o", "m", "\n", "#", " ", "x", "\n", "1", "0", ".", "0", ".", "0", ".", "0", "/", "8">>
TextYaml == <<"p", "a", "y", "l", "o", "a", "d", ":", "\r", "\n", " ", " ", "-", " ", "'", "+", ".", "b", ".", "o", "r", "g", "'", "\r", "\n">>
TextBinary == << "a", ".", "c", "o", "m", InvalidByte >>

\* How a download task's fetch ends: Ok with the bytes, Err, or a panic of
\* the task (the division by a zero chunk, an unwrap of a failed write).
Fetched(bytes) == [kind |-> "ok", body |-> bytes]
FetchErr == [kind |-> "err", body |-> <<>>]
FetchPanic == [kind |-> "panic", body |-> <<>>]

Urls == { UrlA, UrlB }
Outcomes ==
    { Fetched(TextList), Fetched(TextTyped), Fetched(TextBinary), FetchErr,
      FetchPanic }
FileNames == { file_name(u) : u \in Urls }

\* download_multi_threaded(url, chunk) as process_download_rules sees it; an
\* address that is no url (the empty net_rule_path of a local or final
\* entry) ends in Err.
Fetch(url) == IF url \in DOMAIN remote THEN remote[url] ELSE FetchErr

\* String::from_utf8(data).unwrap_or_default()
from_utf8(data) == IF InvalidByte \in Range(data) THEN <<>> ELSE data

\* save_net_file leaving a file that exists as it is, whatever its hash.
save_net_file_KeepExisting(files, net_content, name) ==
    IF net_content # <<>> /\ name \in DOMAIN files /\ files[name] = <<>>
    THEN [files EXCEPT ![name] = << net_content >>]
    ELSE files

\* save_net_file emptying a file that exists when the content is empty.
save_net_file_TruncateOnEmpty(files, net_content, name) ==
    IF name \notin DOMAIN files THEN files
    ELSE IF net_content = <<>>
    THEN (IF files[name] = <<>> THEN files ELSE [files EXCEPT ![name] = << <<>> >>])
    ELSE IF files[name] # <<>> /\ Blake3(files[name][1]) = Blake3(net_content)
    THEN files
    ELSE [files EXCEPT ![name] = << net_content >>]

\* The files of save_rules_dir after save_net_file(net_content, path): empty
\* content is not written; a file that is absent or differs is overwritten,
\* and one that is equal is left as it is.
save_net_file(files, net_content, name) ==
    IF net_content # <<>> /\ name \in DOMAIN files
    THEN IF files[name] # <<>> /\ Blake3(files[name][1]) = Blake3(net_content)
         THEN files
         ELSE [files EXCEPT ![name] = << net_content >>]
    ELSE files

NoResult == [state |-> "pending", name |-> <<>>, rule |-> <<>>]

BrIdle ==
    /\ ruleset = <<>>
    /\ remote = [u \in {} |-> FetchErr]
    /\ local_file = <<>>
    /\ cache = [f \in {} |-> <<>>]
    /\ br_pc = "idle"
    /\ results = <<>>
    /\ cursor = <<>>
    /\ line_rules = <<>>
    /\ sorted_and_unique = <<>>
    /\ rules_count = 0

\* build_rules is called with the ruleset of the ini file; what the urls serve
\* and whether the local file exists is the environment of the call.
BrInit ==
    /\ ruleset \in SeqsUpTo(RuleSetPool, MaxRuleSets)
    /\ remote \in [Urls -> Outcomes]
    /\ local_file \in { <<>>, << TextYaml >> }
    /\ cache = [f \in FileNames |-> <<>>]
    /\ br_pc = "download"
    /\ results = [i \in 1..Len(ruleset) |-> NoResult]
    /\ cursor = [i \in 1..Len(ruleset) |-> 1]
    /\ line_rules = <<>>
    /\ sorted_and_unique = <<>>
    /\ rules_count = 0

\* A download task whose failure cancels the tasks still running.
DownloadTask_CancelSiblings(i) ==
    /\ br_pc = "download"
    /\ results[i].state = "pending"
    /\ LET url == ruleset[i].net_rule_path
           data == Fetch(url).body
       IN  IF Fetch(url).kind = "panic"
           THEN /\ results' = [results EXCEPT ![i].state = "panicked"]
                /\ UNCHANGED cache
           ELSE IF Fetch(url).kind = "err"
           THEN /\ results' = [j \in 1..Len(results) |->
                                 IF results[j].state = "pending"
                                 THEN [results[j] EXCEPT !.state = "panicked"]
                                 ELSE results[j]]
                /\ UNCHANGED cache
           ELSE /\ cache' = save_net_file(cache, data, file_name(url))
                /\ results' = [results EXCEPT
                                 ![i] = [state |-> "ok",
                                         name |-> ruleset[i].rule_name,
                                         rule |-> from_utf8(data)]]
    /\ UNCHANGED << ruleset, remote, local_file, br_pc, cursor, line_rules,
                    sorted_and_unique, rules_count >>
    /\ UNCHANGED notBrVars

\* One spawned download task runs to its end (rules.rs 100-119): the fetch,
\* the cache write, and the RuleSets it returns. The tasks end in any order.
DownloadTask(i) ==
    /\ br_pc = "download"
    /\ results[i].state = "pending"
    /\ LET url == ruleset[i].net_rule_path
           data == Fetch(url).body
       IN  IF Fetch(url).kind = "panic"
           THEN /\ results' = [results EXCEPT ![i].state = "panicked"]
                /\ UNCHANGED cache
           ELSE /\ cache' = save_net_file(cache, data, file_name(url))
                /\ results' = [results EXCEPT
                                 ![i] = [state |-> "ok",
                                         name |-> ruleset[i].rule_name,
                                         rule |-> from_utf8(data)]]
    /\ UNCHANGED << ruleset, remote, local_file, br_pc, cursor, line_rules,
                    sorted_and_unique, rules_count >>
    /\ UNCHANGED notBrVars

\* join_all(download_tasks).await: every task has ended; the results are in
\* the order of the ruleset.
JoinAll ==
    /\ br_pc = "download"
    /\ \A i \in 1..Len(results) : results[i].state # "pending"
    /\ br_pc' = "push"
    /\ UNCHANGED << ruleset, remote, local_file, cache, results, cursor,
                    line_rules, sorted_and_unique, rules_count >>
    /\ UNCHANGED notBrVars

\* One step of the parallel for_each over the results (rules.rs 129-141):
\* under the lock, the next line of result i is formatted and, when not
\* empty, pushed. The lines of one result go in order, the results
\* interleave.
PushLine(i) ==
    /\ br_pc = "push"
    /\ results[i].state = "ok"
    /\ cursor[i] <= Len(lines(results[i].rule))
    /\ LET rule_str == format_rules(lines(results[i].rule)[cursor[i]],
                                    results[i].name)
       IN  line_rules' = IF rule_str # <<>> THEN Append(line_rules, rule_str)
                         ELSE line_rules
    /\ cursor' = [cursor EXCEPT ![i] = cursor[i] + 1]
    /\ UNCHANGED << ruleset, remote, local_file, cache, br_pc, results,
                    sorted_and_unique, rules_count >>
    /\ UNCHANGED notBrVars

RECURSIVE process_local_rules(_)
\* process_local_rules(rulesets): per entry with a path whose file opens,
\* the formatted lines of the file; the entries in the order of the ruleset.
process_local_rules(rulesets) ==
    IF rulesets = <<>> THEN <<>>
    ELSE (IF Head(rulesets).rule = <<>> \/ Head(rulesets).rule # PathL
             \/ local_file = <<>>
          THEN <<>>
          ELSE format_all(lines(local_file[1]), Head(rulesets).name))
            \o process_local_rules(Tail(rulesets))

\* The three vectors build_rules makes of the ruleset (rules.rs 31-51).
local_rules_vec ==
    [i \in 1..Len(ruleset) |->
        [name |-> ruleset[i].rule_name, rule |-> ruleset[i].local_rule_path]]
final_rule_vec ==
    [i \in 1..Len(ruleset) |->
        [name |-> ruleset[i].rule_name, rule |-> ruleset[i].final_rule]]

\* build_rules with the final rules extended into the list before the sort
\* instead of after it.
SortAndExtend_SortFinals ==
    /\ br_pc = "push"
    /\ \A i \in 1..Len(results) :
          results[i].state = "ok" => cursor[i] > Len(lines(results[i].rule))
    /\ \E sorted \in sort_rules(line_rules \o process_local_rules(local_rules_vec)
                                  \o process_final_rules(final_rule_vec)) :
          /\ sorted_and_unique' = sorted
          /\ rules_count' = Len(sorted)
    /\ br_pc' = "done"
    /\ UNCHANGED << ruleset, remote, local_file, cache, results, cursor, line_rules >>
    /\ UNCHANGED notBrVars

\* build_rules returning the length the list has before the final rules are
\* extended into it.
SortAndExtend_CountBlock ==
    /\ br_pc = "push"
    /\ \A i \in 1..Len(results) :
          results[i].state = "ok" => cursor[i] > Len(lines(results[i].rule))
    /\ \E sorted \in sort_rules(line_rules \o process_local_rules(local_rules_vec)) :
          /\ sorted_and_unique' = sorted \o process_final_rules(final_rule_vec)
          /\ rules_count' = Len(sorted)
    /\ br_pc' = "done"
    /\ UNCHANGED << ruleset, remote, local_file, cache, results, cursor, line_rules >>
    /\ UNCHANGED notBrVars

\* The rest of build_rules once every line is pushed (rules.rs 57-82): the
\* local rules are appended, the list is sorted and deduplicated, the final
\* rules are appended, and the list is returned with its length.
SortAndExtend ==
    /\ br_pc = "push"
    /\ \A i \in 1..Len(results) :
          results[i].state = "ok" => cursor[i] > Len(lines(results[i].rule))
    /\ \E sorted \in sort_rules(line_rules \o process_local_rules(local_rules_vec)) :
          /\ sorted_and_unique' = sorted \o process_final_rules(final_rule_vec)
          /\ rules_count' = Len(sorted \o process_final_rules(final_rule_vec))
    /\ br_pc' = "done"
    /\ UNCHANGED << ruleset, remote, local_file, cache, results, cursor, line_rules >>
    /\ UNCHANGED notBrVars

BrNext ==
    \/ \E i \in 1..Len(ruleset) : DownloadTask(i)
    \/ JoinAll
    \/ \E i \in 1..Len(ruleset) : PushLine(i)
    \/ SortAndExtend

\* ------------------------------------------------------------------------
\* Properties of build_rules
\* ------------------------------------------------------------------------

RECURSIVE InsertStable(_, _)
\* Insertion of tuple t into tuples already sorted: after every tuple the
\* comparator does not hold greater.
InsertStable(sorted, t) ==
    IF sorted = <<>> THEN << t >>
    ELSE IF RuleLess(t, Head(sorted)) THEN << t >> \o sorted
    ELSE << Head(sorted) >> \o InsertStable(Tail(sorted), t)

RECURSIVE StableSorted(_)
\* The tuples sorted with equal tuples left in their order.
StableSorted(tuples) ==
    IF tuples = <<>> THEN <<>>
    ELSE InsertStable(StableSorted(Take(tuples, Len(tuples) - 1)),
                      tuples[Len(tuples)])

RECURSIVE PushedInOrder(_)
\* The shared list when the first n results are pushed one after the other.
PushedInOrder(n) ==
    IF n = 0 THEN <<>>
    ELSE PushedInOrder(n - 1)
            \o (IF results[n].state = "ok"
                THEN format_all(lines(results[n].rule), results[n].name)
                ELSE <<>>)

\* The list build_rules returns under the schedule that pushes the results
\* one after the other in the order of the ruleset, with a sort that leaves
\* equal tuples in their order: one of the schedules of the program.
SequentialBuild ==
    LET down_rules == PushedInOrder(Len(results))
                         \o process_local_rules(local_rules_vec)
        tuples == [i \in 1..Len(down_rules) |-> SortTuple(down_rules[i])]
        sorted == StableSorted(tuples)
    IN  dedup([i \in 1..Len(sorted) |-> sorted[i].line])
           \o process_final_rules(final_rule_vec)

\* C1: for fixed rule sources and fixed fetched and read contents, the rule
\* list build_rules returns is the same under every completion order of the
\* download tasks, every interleaving of the per-line pushes and every order
\* the sort gives to lines of equal type and target: it is the list of the
\* sequential schedule.
C1_BuildIsOrderIndependent ==
    br_pc = "done" => sorted_and_unique = SequentialBuild

RECURSIVE DeclaredFinals(_)
\* The final rules of the first n entries of the ruleset, entry by entry in
\* the order of declaration.
DeclaredFinals(n) ==
    IF n = 0 THEN <<>>
    ELSE DeclaredFinals(n - 1)
            \o final_rule_of(ruleset[n].rule_name, ruleset[n].final_rule)

\* The rules of the remote and local sources that went into the sort.
BlockRules == Range(line_rules \o process_local_rules(local_rules_vec))

\* The number of rules of the returned list that stand before its final
\* rules.
BlockLen == Len(sorted_and_unique) - Len(DeclaredFinals(Len(ruleset)))

\* C15: in the list build_rules returns, the final rules stand after every
\* rule of the sorted remote and local block, in the order their sources are
\* declared, each one as process_final_rules made it: the sort and the
\* removal of duplicates reorder, change and remove none of them.
C15_FinalsFollowSortedBlock ==
    br_pc = "done" =>
        /\ BlockLen >= 0
        /\ Drop(sorted_and_unique, BlockLen) = DeclaredFinals(Len(ruleset))
        /\ Range(Take(sorted_and_unique, BlockLen)) = BlockRules

\* A final source declared before a remote one whose rules are of a type
\* that sorts after the final rule's: the final rule is last all the same.
C15_Witness ==
    /\ br_pc = "done"
    /\ Len(ruleset) = 2
    /\ ruleset[1].final_rule # <<>>
    /\ Len(sorted_and_unique) = 3
    /\ sorted_and_unique[2] = <<"I", "P", "-", "C", "I", "D", "R", ",", "2", ".", "0", ".", "0", ".", "0", "/", "8", ",", "X", ",", "n", "o", "-", "r", "e", "s", "o", "l", "v", "e">>
    /\ sorted_and_unique[3] = <<"G", "E", "O", "I", "P", ",", "C", "N", ",", "V", ",", "n", "o", "-", "r", "e", "s", "o", "l", "v", "e">>

\* C16 (as stated): the count build_rules returns is the number of non-final
\* rules of the list, the length of the sorted and deduplicated block; the
\* final rules are not counted.
C16_CountIsNonFinalRules ==
    br_pc = "done" => rules_count = BlockLen

\* C16 (amended): the count build_rules returns is the length of the whole
\* returned list, the rules of the sorted and deduplicated block and the
\* final rules together.
C16_CountIsWholeList ==
    br_pc = "done" =>
        /\ rules_count = Len(sorted_and_unique)
        /\ rules_count = BlockLen + Len(DeclaredFinals(Len(ruleset)))

\* A returned list of two block rules and one final rule, counted as three.
C16_Witness ==
    /\ br_pc = "done"
    /\ BlockLen = 2
    /\ Len(DeclaredFinals(Len(ruleset))) = 1
    /\ rules_count = 3

\* How the download of the source of entry i ends.
FetchOf(i) == Fetch(ruleset[i].net_rule_path)

\* The rules the text fetched for entry i holds, tagged with its name.
FetchedRules(i) ==
    IF FetchOf(i).kind = "ok"
    THEN Range(format_all(lines(from_utf8(FetchOf(i).body)), ruleset[i].rule_name))
    ELSE {}

\* The rules of the sources that were fetched and of the local sources that
\* were read.
AvailableRules ==
    UNION { FetchedRules(i) : i \in 1..Len(ruleset) }
        \cup Range(process_local_rules(local_rules_vec))

\* build_rules has a step to take: a task to run, the join, a line to push,
\* or the sort of what was pushed.
BuildCanStep ==
    \/ br_pc = "download"
    \/ \E i \in 1..Len(results) :
          results[i].state = "ok" /\ cursor[i] <= Len(lines(results[i].rule))
    \/ sort_rules(line_rules \o process_local_rules(local_rules_vec)) # {}

RuleValues ==
    { <<"1", "9", "2", ".", "1", "6", "8", ".", "1", ".", "0", "/", "2", "4">>, <<"2", "0", "0", "1", ":", "d", "b", "8", ":", ":", "/", "3", "2">>, <<"9", "9", "9", ".", "1", ".", "1", ".", "1", "/", "3", "3">>,
      <<"+", ".", "e", "x", "a", "m", "p", "l", "e", ".", "c", "o", "m">>, <<"b", "a", "i", "d", "u", ".", "c", "o", "m">>, <<"#", " ", "c", "o", "m", "m", "e", "n", "t">>, <<"#", "D", "O", "M", "A", "I", "N", ",", "x">>,
      <<"I", "P", "-", "C", "I", "D", "R", ",", "1", ".", "2", ".", "3", ".", "0", "/", "2", "4", ",", "n", "o", "-", "r", "e", "s", "o", "l", "v", "e">>, <<"I", "P", "-", "C", "I", "D", "R", ",", "1", ".", "2", ".", "3", ".", "0", "/", "2", "4">>,
      <<"I", "P", "-", "C", "I", "D", "R", "6", ",", ":", ":", "1", "/", "1", "2", "8", ",", "n", "o", "-", "r", "e", "s", "o", "l", "v", "e">>, <<"G", "E", "O", "I", "P", ",", "C", "N", ",", "n", "o", "-", "r", "e", "s", "o", "l", "v", "e">>, <<"G", "E", "O", "I", "P", ",", "C", "N">>,
      <<"D", "O", "M", "A", "I", "N", ",", "a", ".", "c", "o", "m">>, <<"D", "O", "M", "A", "I", "N", "-", "S", "U", "F", "F", "I", "X", ",", "b", ".", "o", "r", "g", ",", "n", "o", "-", "r", "e", "s", "o", "l", "v", "e">>,
      <<"E", "X", "P", "L", "O", "R", "E", "R", ".", "c", "o", "m">>, <<"+", ".", "N", "O", "T", "I", "O", "N", ".", "s", "o">>, <<"D", "O", "M", "A", "I", "N", "-", "R", "E", "G", "E", "X", ",", "^", "a", "$">>, <<"p", "a", "y", "l", "o", "a", "d", ":">>,
      <<"f", "o", "o", " ", "b", "a", "r">> }

\* The ways a value stands on a line: bare (list dialect), or as a YAML list
\* item in single quotes, in double quotes, unquoted, or indented.
Wrappers == { "bare", "single", "double", "plain", "indented" }

\* The line that holds the value v in the way w.
Wrap(w, v) ==
    CASE w = "bare" -> v
      [] w = "single" -> <<"-", " ", "'">> \o v \o <<"'">>
      [] w = "double" -> <<"-", " ", "\"">> \o v \o <<"\"">>
      [] w = "plain" -> <<"-", " ">> \o v
      [] w = "indented" -> <<" ", " ", "-", " ", "'">> \o v \o <<"'">>

\* The source names rules are tagged with.
TagNames == { <<"T">>, <<"p", "r", "o", "x", "y">> }

\* The final_rule texts of ruleset entries.
FinalTemplates ==
    { <<"F", "I", "N", "A", "L", ",", "[", "]">>, <<"[", "]", "F", "I", "N", "A", "L">>, <<"S", "O", "M", "E", "-", "R", "U", "L", "E", ",", "[", "]">>, <<"[", "]", "S", "O", "M", "E", "-", "R", "U", "L", "E">>,
      <<"[", "]", "G", "E", "O", "I", "P", ",", "C", "N", ",", "n", "o", "-", "r", "e", "s", "o", "l", "v", "e">>, <<"[", "]", "G", "E", "O", "S", "I", "T", "E", ",", "c", "n">>, <<"F", "I", "N", "A", "L">>, <<>> }

ExIdle ==
    /\ ex_value = <<>>
    /\ ex_wrap = "bare"
    /\ ex_name = <<>>
    /\ ex_template = <<>>
    /\ ex_pc = "idle"
    /\ ex_rule = <<>>
    /\ ex_tagged = <<>>
    /\ ex_final = <<>>

\* A line of a rule file, a source name and a final_rule text.
ExInit ==
    /\ ex_value \in RuleValues
    /\ ex_wrap \in Wrappers
    /\ ex_name \in TagNames
    /\ ex_template \in FinalTemplates
    /\ ex_pc = "line"
    /\ ex_rule = <<>>
    /\ ex_tagged = <<>>
    /\ ex_final = <<>>

\* The line extraction_rules and format_rules are called with.
ex_line == Wrap(ex_wrap, ex_value)

\* let rule = mathrule::extraction_rules(&item)
ExtractionRules ==
    /\ ex_pc = "line"
    /\ ex_rule' = extraction_rules(ex_line)
    /\ ex_pc' = "extracted"
    /\ UNCHANGED << ex_value, ex_wrap, ex_name, ex_template, ex_tagged, ex_final >>
    /\ UNCHANGED notExVars

\* format_rules(line, &name_str)
FormatRules ==
    /\ ex_pc = "extracted"
    /\ ex_tagged' = format_rules(ex_line, ex_name)
    /\ ex_pc' = "formatted"
    /\ UNCHANGED << ex_value, ex_wrap, ex_name, ex_template, ex_rule, ex_final >>
    /\ UNCHANGED notExVars

\* process_final_rules(vec![RuleSets { name, rule }])
ProcessFinalRules ==
    /\ ex_pc = "formatted"
    /\ ex_final' = process_final_rules(<< [name |-> ex_name, rule |-> ex_template] >>)
    /\ ex_pc' = "done"
    /\ UNCHANGED << ex_value, ex_wrap, ex_name, ex_template, ex_rule, ex_tagged >>
    /\ UNCHANGED notExVars

ExNext ==
    \/ ExtractionRules
    \/ FormatRules
    \/ ProcessFinalRules

\* ------------------------------------------------------------------------
\* Properties of extraction_rules, format_rules and process_final_rules
\* ------------------------------------------------------------------------

\* The tagged rule with the name immediately before the no-resolve flag when
\* the rule carries the flag, and as the last field otherwise.
NameBeforeFlag(rule, name_str) ==
    IF Contains(rule, NO_RESOLVE)
    THEN InsertName(rule, Find(rule, NO_RESOLVE), name_str)
    ELSE rule \o <<",">> \o name_str

\* C11: for every non-empty normalized rule of any rule type that passes the
\* exclusion filter, format_rules returns the rule with the source name
\* immediately before the no-resolve flag when the rule carries the flag (the
\* flag is preserved), and with the source name as the last field otherwise.
C11_NameBeforeNoResolveForEveryType ==
    (ex_pc \in { "formatted", "done" } /\ ex_rule # <<>> /\ NotFiltered(ex_rule))
        => ex_tagged = NameBeforeFlag(ex_rule, ex_name)

\* The candidate value extraction_rules takes from the line.
ex_candidate == MatchContent(ex_line, RE_YAML_RULES(ex_line))

\* The value starts with an inclusion keyword.
StartsWithKeyword(v) == \E kw \in INCLUDE_KEY : StartsWith(v, kw)

\* C12: extraction_rules keeps a candidate value verbatim exactly when the
\* value starts with one of the inclusion keywords; every other value, also
\* one that holds a keyword elsewhere, is classified by the wildcard, domain
\* and CIDR steps.
C12_VerbatimExactlyOnKeywordPrefix ==
    (ex_pc # "line" /\ ex_candidate # <<>>)
        => ex_rule = IF StartsWithKeyword(ex_candidate) THEN ex_candidate
                     ELSE ShapeRule(ex_candidate)

\* The results the specification lists for its literal inputs; a line that
\* starts with "#" gives the empty result.
ListedResult(v) ==
    CASE v = <<"1", "9", "2", ".", "1", "6", "8", ".", "1", ".", "0", "/", "2", "4">> -> <<"I", "P", "-", "C", "I", "D", "R", ",", "1", "9", "2", ".", "1", "6", "8", ".", "1", ".", "0", "/", "2", "4", ",", "n", "o", "-", "r", "e", "s", "o", "l", "v", "e">>
      [] v = <<"2", "0", "0", "1", ":", "d", "b", "8", ":", ":", "/", "3", "2">> -> <<"I", "P", "-", "C", "I", "D", "R", "6", ",", "2", "0", "0", "1", ":", "d", "b", "8", ":", ":", "/", "3", "2", ",", "n", "o", "-", "r", "e", "s", "o", "l", "v", "e">>
      [] v = <<"9", "9", "9", ".", "1", ".", "1", ".", "1", "/", "3", "3">> -> <<>>
      [] v = <<"+", ".", "e", "x", "a", "m", "p", "l", "e", ".", "c", "o", "m">> -> <<"D", "O", "M", "A", "I", "N", "-", "S", "U", "F", "F", "I", "X", ",", "e", "x", "a", "m", "p", "l", "e", ".", "c", "o", "m">>
      [] v = <<"b", "a", "i", "d", "u", ".", "c", "o", "m">> -> <<"D", "O", "M", "A", "I", "N", ",", "b", "a", "i", "d", "u", ".", "c", "o", "m">>
      [] OTHER -> <<>>

\* The values the specification lists a result for.
Listed(v) ==
    \/ v \in { <<"1", "9", "2", ".", "1", "6", "8", ".", "1", ".", "0", "/", "2", "4">>, <<"2", "0", "0", "1", ":", "d", "b", "8", ":", ":", "/", "3", "2">>, <<"9", "9", "9", ".", "1", ".", "1", ".", "1", "/", "3", "3">>,
               <<"+", ".", "e", "x", "a", "m", "p", "l", "e", ".", "c", "o", "m">>, <<"b", "a", "i", "d", "u", ".", "c", "o", "m">> }
    \/ StartsWith(v, <<"#">>)

\* C13: extraction_rules gives the listed result for every listed value
\* (subnets, wildcard, domain, comment line), and gives it as well when the
\* value is written as a YAML list item, quoted or not.
C13_ListedValuesInEveryDialect ==
    (ex_pc # "line" /\ Listed(ex_value)) => ex_rule = ListedResult(ex_value)

\* C14: process_final_rules turns FINAL,[] with tag T into MATCH,T and
\* SOME-RULE,[] with tag T into SOME-RULE,T, and puts the tag immediately
\* before the flag of a template that carries no-resolve.
C14_FinalTemplatesRewritten ==
    ex_pc = "done" =>
        /\ ex_template = <<"F", "I", "N", "A", "L", ",", "[", "]">> => ex_final = << <<"M", "A", "T", "C", "H", ",">> \o ex_name >>
        /\ ex_template = <<"S", "O", "M", "E", "-", "R", "U", "L", "E", ",", "[", "]">> => ex_final = << <<"S", "O", "M", "E", "-", "R", "U", "L", "E", ",">> \o ex_name >>
        /\ ex_template = <<"[", "]", "G", "E", "O", "I", "P", ",", "C", "N", ",", "n", "o", "-", "r", "e", "s", "o", "l", "v", "e">>
              => ex_final = << <<"G", "E", "O", "I", "P", ",", "C", "N", ",">> \o ex_name \o NO_RESOLVE >>

\* C28: process_final_rules emits exactly one rule for a source whose final
\* template holds the "[]" placeholder and none for a source without it; no
\* template with the placeholder is dropped, one that names GEOSITE and has
\* no no-resolve flag included.
C28_OneFinalRulePerPlaceholder ==
    ex_pc = "done" =>
        Len(ex_final) = (IF Contains(ex_template, <<"[", "]">>) THEN 1 ELSE 0)

\* ------------------------------------------------------------------------
\* Calls of sort_rules
\* ------------------------------------------------------------------------

\* Longest list of lines sort_rules is called with.
MaxLines == 3

\* The lines sort_rules is called with: IPv4 subnets whose numeric and text
\* orders differ, a subnet whose address does not parse, a line of the type
\* alone, IPv6 subnets whose numeric and text orders differ, and domain
\* rules, two of them with the same type and target.
SortPool ==
    { <<"I", "P", "-", "C", "I", "D", "R", ",", "2", ".", "0", ".", "0", ".", "0", "/", "8", ",", "T", ",", "n", "o", "-", "r", "e", "s", "o", "l", "v", "e">>, <<"I", "P", "-", "C", "I", "D", "R", ",", "1", "0", ".", "0", ".", "0", ".", "0", "/", "8", ",", "T", ",", "n", "o", "-", "r", "e", "s", "o", "l", "v", "e">>,
      <<"I", "P", "-", "C", "I", "D", "R", ",", "9", "9", "9", ".", "1", ".", "1", ".", "1", "/", "3", "3", ",", "T">>, <<"I", "P", "-", "C", "I", "D", "R">>,
      <<"I", "P", "-", "C", "I", "D", "R", "6", ",", ":", ":", "2", "/", "1", "2", "8", ",", "T">>, <<"I", "P", "-", "C", "I", "D", "R", "6", ",", ":", ":", "1", "0", "/", "1", "2", "8", ",", "T">>,
      <<"D", "O", "M", "A", "I", "N", ",", "b", ".", "o", "r", "g", ",", "T">>, <<"D", "O", "M", "A", "I", "N", ",", "a", ".", "c", "o", "m", ",", "T">>, <<"D", "O", "M", "A", "I", "N", ",", "a", ".", "c", "o", "m", ",", "U">> }

SoIdle ==
    /\ so_lines = <<>>
    /\ so_tuples = <<>>
    /\ so_pc = "idle"
    /\ so_result = <<>>

SoInit ==
    /\ so_lines \in SeqsUpTo(SortPool, MaxLines)
    /\ so_tuples = <<>>
    /\ so_pc = "lines"
    /\ so_result = <<>>

\* lines.into_par_iter().map(..).collect(): the tuples in the order of the
\* lines.
MapTuples ==
    /\ so_pc = "lines"
    /\ so_tuples' = TuplesOf(so_lines)
    /\ so_pc' = "tuples"
    /\ UNCHANGED << so_lines, so_result >>
    /\ UNCHANGED notSoVars

\* tuples.par_sort_unstable_by(..): any order the comparator allows.
SortUnstable ==
    /\ so_pc = "tuples"
    /\ so_tuples' \in SortedOrders(so_tuples, 1..Len(so_tuples))
    /\ so_pc' = "sorted"
    /\ UNCHANGED << so_lines, so_result >>
    /\ UNCHANGED notSoVars

\* The lines of the tuples, deduplicated, are returned.
DedupLines ==
    /\ so_pc = "sorted"
    /\ so_result' = dedup(LinesOf(so_tuples))
    /\ so_pc' = "done"
    /\ UNCHANGED << so_lines, so_tuples >>
    /\ UNCHANGED notSoVars

SoNext ==
    \/ MapTuples
    \/ SortUnstable
    \/ DedupLines

\* ------------------------------------------------------------------------
\* Properties of sort_rules
\* ------------------------------------------------------------------------

\* The type field of a line: the text before the first comma.
TypeField(line) == Split(line, ",")[1]

\* The target field of a line: the text between the first and the second
\* comma, empty when the line has no comma.
TargetField(line) ==
    IF Len(Split(line, ",")) >= 2 THEN Split(line, ",")[2] ELSE <<>>

\* The numeric value of the address before the slash of the target, as an
\* Option: None when the address does not parse.
AddressValue(line) == ip_to_u128(Split(TargetField(line), "/")[1])

\* Line a may stand before line b in a group ordered by address value:
\* an address that does not parse before every one that parses, and of two
\* that parse the greater one not first.
NumericOrder(a, b) ==
    /\ AddressValue(b) = <<>> => AddressValue(a) = <<>>
    /\ (AddressValue(a) # <<>> /\ AddressValue(b) # <<>>)
          => ~U128LT(AddressValue(b)[1], AddressValue(a)[1])

\* The lines of the given type are in the order of their address values.
GroupInNumericOrder(ls, type) ==
    \A i, j \in 1..Len(ls) :
        (i < j /\ TypeField(ls[i]) = type /\ TypeField(ls[j]) = type)
            => NumericOrder(ls[i], ls[j])

\* The comparator is a strict weak order on the tuples: a sort by it cannot
\* meet an inconsistent answer.
ConsistentComparator(tuples) ==
    \A a, b, c \in Range(tuples) :
        /\ ~(RuleLess(a, b) /\ RuleLess(b, a))
        /\ (RuleLess(a, b) /\ RuleLess(b, c)) => RuleLess(a, c)
        /\ (~RuleLess(a, b) /\ ~RuleLess(b, a) /\ ~RuleLess(b, c) /\ ~RuleLess(c, b))
              => (~RuleLess(a, c) /\ ~RuleLess(c, a))

\* C17: within the IP-CIDR group of its output sort_rules orders the lines
\* by the numeric value of the address before the slash, a line whose
\* address does not parse stands before every line whose address parses,
\* and no list of lines makes the sort fail: every line gets a tuple, the
\* comparator is consistent on them and the sort has an order to return.
C17_IpCidrInNumericOrder ==
    /\ so_pc = "tuples" =>
          /\ Len(so_tuples) = Len(so_lines)
          /\ ConsistentComparator(so_tuples)
          /\ SortedOrders(so_tuples, 1..Len(so_tuples)) # {}
    /\ so_pc = "done" => GroupInNumericOrder(so_result, <<"I", "P", "-", "C", "I", "D", "R">>)

\* 10.0.0.0/8, 2.0.0.0/8 and a subnet of an address that does not parse go
\* in and come out in the reverse order.
C17_Witness ==
    /\ so_pc = "done"
    /\ so_lines = << <<"I", "P", "-", "C", "I", "D", "R", ",", "1", "0", ".", "0", ".", "0", ".", "0", "/", "8", ",", "T", ",", "n", "o", "-", "r", "e", "s", "o", "l", "v", "e">>,
                     <<"I", "P", "-", "C", "I", "D", "R", ",", "2", ".", "0", ".", "0", ".", "0", "/", "8", ",", "T", ",", "n", "o", "-", "r", "e", "s", "o", "l", "v", "e">>,
                     <<"I", "P", "-", "C", "I", "D", "R", ",", "9", "9", "9", ".", "1", ".", "1", ".", "1", "/", "3", "3", ",", "T">> >>
    /\ so_result = << <<"I", "P", "-", "C", "I", "D", "R", ",", "9", "9", "9", ".", "1", ".", "1", ".", "1", "/", "3", "3", ",", "T">>,
                      <<"I", "P", "-", "C", "I", "D", "R", ",", "2", ".", "0", ".", "0", ".", "0", "/", "8", ",", "T", ",", "n", "o", "-", "r", "e", "s", "o", "l", "v", "e">>,
                      <<"I", "P", "-", "C", "I", "D", "R", ",", "1", "0", ".", "0", ".", "0", ".", "0", "/", "8", ",", "T", ",", "n", "o", "-", "r", "e", "s", "o", "l", "v", "e">> >>

\* C18: within the IP-CIDR6 group of its output sort_rules orders the lines
\* by the 128-bit numeric value of the address before the slash, as it does
\* for IP-CIDR, and not by the text of the target.
C18_IpCidr6InNumericOrder ==
    so_pc = "done" => GroupInNumericOrder(so_result, <<"I", "P", "-", "C", "I", "D", "R", "6">>)

\* C19: the lines sort_rules returns are in non-decreasing string order of
\* their type field, so the lines of one type are contiguous and IP-CIDR
\* and IP-CIDR6 are groups of their own; within a group whose type is not
\* an IP type the lines are in non-decreasing string order of the target.
C19_TypeThenTargetOrder ==
    so_pc = "done" =>
        /\ \A i, j \in 1..Len(so_result) :
              i < j =>
                 /\ ~StrLT(TypeField(so_result[j]), TypeField(so_result[i]))
                 /\ (/\ TypeField(so_result[i]) = TypeField(so_result[j])
                     /\ TypeField(so_result[i]) \notin { <<"I", "P", "-", "C", "I", "D", "R">>, <<"I", "P", "-", "C", "I", "D", "R", "6">> })
                       => ~StrLT(TargetField(so_result[j]), TargetField(so_result[i]))
        /\ \A i, m, j \in 1..Len(so_result) :
              (i < m /\ m < j /\ TypeField(so_result[i]) = TypeField(so_result[j]))
                  => TypeField(so_result[m]) = TypeField(so_result[i])

\* Two domain rules out of order with a subnet between them go in; the
\* domain rules come out together, in the order of their targets, before
\* the subnet.
C19_Witness ==
    /\ so_pc = "done"
    /\ so_lines = << <<"D", "O", "M", "A", "I", "N", ",", "b", ".", "o", "r", "g", ",", "T">>, <<"I", "P", "-", "C", "I", "D", "R", ",", "2", ".", "0", ".", "0", ".", "0", "/", "8", ",", "T", ",", "n", "o", "-", "r", "e", "s", "o", "l", "v", "e">>,
                     <<"D", "O", "M", "A", "I", "N", ",", "a", ".", "c", "o", "m", ",", "T">> >>
    /\ so_result = << <<"D", "O", "M", "A", "I", "N", ",", "a", ".", "c", "o", "m", ",", "T">>, <<"D", "O", "M", "A", "I", "N", ",", "b", ".", "o", "r", "g", ",", "T">>,
                      <<"I", "P", "-", "C", "I", "D", "R", ",", "2", ".", "0", ".", "0", ".", "0", "/", "8", ",", "T", ",", "n", "o", "-", "r", "e", "s", "o", "l", "v", "e">> >>

\* C26: the list sort_rules returns holds no two equal lines, whatever the
\* lines it is called with and whatever order the unstable sort leaves
\* lines of the same type and sort key in.
C26_NoEqualLinesReturned ==
    so_pc = "done" =>
        \A i, j \in 1..Len(so_result) : i < j => so_result[i] # so_result[j]

\* ------------------------------------------------------------------------
\* Calls of save_net_file
\* ------------------------------------------------------------------------

\* Most calls of save_net_file on the path.
MaxCalls == 3

\* The file_path of the calls.
CachePath == <<"r", "u", "l", "e", "s", "/", "a">>

\* The byte contents of the calls and of the file: none, and the texts of
\* two rule files.
ContentPool == { <<>>, TextList, TextTyped }

\* The four messages of save_net_file, by what they say.
MsgUnchanged == "unchanged"
MsgUpdated == "updated"
MsgCreated == "created"
MsgEmpty == "empty"

\* The file at the path: None when path.exists() is false.
FileAt(files) == files[CachePath]

\* save_net_file reaches one of its two fs::write calls.
ReachesWrite(files, net_content) ==
    /\ net_content # <<>>
    /\ IF FileAt(files) = <<>> THEN TRUE
       ELSE Blake3(FileAt(files)[1]) # Blake3(net_content)

\* The message save_net_file returns.
Message(files, net_content) ==
    IF net_content = <<>> THEN MsgEmpty
    ELSE IF FileAt(files) = <<>> THEN MsgCreated
    ELSE IF Blake3(FileAt(files)[1]) = Blake3(net_content) THEN MsgUnchanged
    ELSE MsgUpdated

\* What a failed fs::write may leave at the path: the file as it was, or a
\* file holding the first bytes of the content.
FailedWrites(files, net_content) ==
    { files }
        \cup { [files EXCEPT ![CachePath] = << Take(net_content, n) >>] :
                   n \in 0..(Len(net_content) - 1) }

FsIdle ==
    /\ fs_files = [f \in {} |-> <<>>]
    /\ fs_content = <<>>
    /\ fs_pc = "idle"
    /\ fs_message = ""
    /\ fs_wrote = FALSE
    /\ fs_before = <<>>
    /\ fs_prev = <<>>
    /\ fs_calls = 0

\* The path holds no file, an empty file, or one of the contents.
FsInit ==
    /\ fs_files \in [{ CachePath } -> { <<>> } \cup { << c >> : c \in ContentPool }]
    /\ fs_content = <<>>
    /\ fs_pc = "start"
    /\ fs_message = ""
    /\ fs_wrote = FALSE
    /\ fs_before = <<>>
    /\ fs_prev = <<>>
    /\ fs_calls = 0

\* save_net_file(net_content, file_path) runs to its return.
SaveNetFile(net_content) ==
    /\ fs_pc # "idle"
    /\ fs_calls < MaxCalls
    /\ fs_files' = save_net_file(fs_files, net_content, CachePath)
    /\ fs_content' = net_content
    /\ fs_pc' = "returned"
    /\ fs_message' = Message(fs_files, net_content)
    /\ fs_wrote' = ReachesWrite(fs_files, net_content)
    /\ fs_before' = FileAt(fs_files)
    /\ fs_prev' = IF fs_pc = "returned" THEN << fs_content >> ELSE <<>>
    /\ fs_calls' = fs_calls + 1
    /\ UNCHANGED notFsVars

\* save_net_file(net_content, file_path) panics: the fs::read of the file
\* that exists fails (expect), and the file is as it was.
ReadPanics(net_content) ==
    /\ fs_pc # "idle"
    /\ fs_calls < MaxCalls
    /\ net_content # <<>>
    /\ FileAt(fs_files) # <<>>
    /\ fs_content' = net_content
    /\ fs_pc' = "panicked"
    /\ fs_message' = ""
    /\ fs_wrote' = FALSE
    /\ fs_before' = FileAt(fs_files)
    /\ fs_prev' = <<>>
    /\ fs_calls' = fs_calls + 1
    /\ UNCHANGED fs_files
    /\ UNCHANGED notFsVars

\* save_net_file(net_content, file_path) panics: the fs::write it reaches
\* fails (unwrap).
WritePanics(net_content) ==
    /\ fs_pc # "idle"
    /\ fs_calls < MaxCalls
    /\ ReachesWrite(fs_files, net_content)
    /\ fs_files' \in FailedWrites(fs_files, net_content)
    /\ fs_content' = net_content
    /\ fs_pc' = "panicked"
    /\ fs_message' = ""
    /\ fs_wrote' = TRUE
    /\ fs_before' = FileAt(fs_files)
    /\ fs_prev' = <<>>
    /\ fs_calls' = fs_calls + 1
    /\ UNCHANGED notFsVars

FsNext ==
    \/ \E net_content \in ContentPool : SaveNetFile(net_content)
    \/ \E net_content \in ContentPool : ReadPanics(net_content)
    \/ \E net_content \in ContentPool : WritePanics(net_content)

\* ------------------------------------------------------------------------
\* Properties of save_net_file
\* ------------------------------------------------------------------------

\* C20: a call of save_net_file with bytes that are not empty, when it
\* returns, has written the file exactly when there was no file at the path
\* or the hash of the file differed from the hash of the bytes; the file
\* then holds the bytes; and a call with the bytes of the call that returned
\* before it reports the file unchanged and writes nothing.
C20_WritesExactlyWhenChanged ==
    (fs_pc = "returned" /\ fs_content # <<>>) =>
        /\ fs_wrote <=> (IF fs_before = <<>> THEN TRUE
                         ELSE Blake3(fs_before[1]) # Blake3(fs_content))
        /\ FileAt(fs_files) = << fs_content >>
        /\ fs_prev = << fs_content >> =>
              /\ fs_message = MsgUnchanged
              /\ ~fs_wrote
              /\ FileAt(fs_files) = fs_before

\* A second call with the bytes of the first, on a path that held other
\* bytes before the first.
C20_Witness ==
    /\ fs_pc = "returned"
    /\ fs_calls = 2
    /\ fs_content = TextTyped
    /\ fs_prev = << TextTyped >>
    /\ fs_message = MsgUnchanged
    /\ ~fs_wrote

\* ------------------------------------------------------------------------
\* Calls of build_rules over cached files
\* ------------------------------------------------------------------------

\* A url with the last path segment of UrlA on another host.
UrlC == <<"h", "t", "t", "p", ":", "/", "/", "g", "/", "a">>

\* Two remote sources with urls of the same last segment.
CachedRuleSetPool == { NetRuleSet(<<"X">>, UrlA), NetRuleSet(<<"U">>, UrlC) }

CachedUrls == { UrlA, UrlC }

\* The downloads end in Ok with one of two texts, or in Err.
CachedOutcomes == { Fetched(TextList), Fetched(TextTyped), FetchErr }

\* build_rules is called when save_rules_dir may hold files of an earlier
\* run.
CachedInit ==
    /\ ruleset \in SeqsUpTo(CachedRuleSetPool, MaxRuleSets)
    /\ remote \in [CachedUrls -> CachedOutcomes]
    /\ local_file = <<>>
    /\ cache \in [{ file_name(u) : u \in CachedUrls } -> { <<>>, << TextTyped >> }]
    /\ br_pc = "download"
    /\ results = [i \in 1..Len(ruleset) |-> NoResult]
    /\ cursor = [i \in 1..Len(ruleset) |-> 1]
    /\ line_rules = <<>>
    /\ sorted_and_unique = <<>>
    /\ rules_count = 0

\* The file of the given name as save_net_file sees it at its file_path.
FileView(files, name) == [p \in { CachePath } |-> files[name]]

\* The path the task of entry i saves to.
SavePath(i) == file_name(ruleset[i].net_rule_path)

\* The download task of entry i panics in save_net_file: the fs::write it
\* reaches fails, and the unwrap ends the task (download.rs 90, 94).
CacheWritePanics(i) ==
    /\ br_pc = "download"
    /\ results[i].state = "pending"
    /\ FetchOf(i).kind = "ok"
    /\ ReachesWrite(FileView(cache, SavePath(i)), FetchOf(i).body)
    /\ \E left \in FailedWrites(FileView(cache, SavePath(i)), FetchOf(i).body) :
          cache' = [cache EXCEPT ![SavePath(i)] = FileAt(left)]
    /\ results' = [results EXCEPT ![i].state = "panicked"]
    /\ UNCHANGED << ruleset, remote, local_file, br_pc, cursor, line_rules,
                    sorted_and_unique, rules_count >>
    /\ UNCHANGED notBrVars

CachedNext ==
    \/ BrNext
    \/ \E i \in 1..Len(ruleset) : CacheWritePanics(i)

\* ------------------------------------------------------------------------
\* Properties of build_rules over cached files
\* ------------------------------------------------------------------------

WriteFailed(i) == results[i].state = "panicked" /\ FetchOf(i).kind = "ok"

\* C23: when the write of the cache file of a fetched source fails, the run
\* aborts: build_rules returns no rule list that lacks the rules of that
\* source.
C23_WriteFailureLosesNoRules ==
    br_pc = "done" =>
        \A i \in 1..Len(ruleset) :
            WriteFailed(i) => FetchedRules(i) \subseteq Range(sorted_and_unique)

\* C27: sources with different urls are saved under different cache paths,
\* urls with the same last path segment included, so no two tasks check
\* and write the same file and, when build_rules has returned, the cache
\* file of every source that was fetched holds the bytes of its own url.
C27_OneCacheFilePerUrl ==
    br_pc = "done" =>
        /\ \A i, j \in 1..Len(ruleset) :
              ruleset[i].net_rule_path # ruleset[j].net_rule_path
                  => SavePath(i) # SavePath(j)
        /\ \A i \in 1..Len(ruleset) :
              (results[i].state = "ok" /\ FetchOf(i).kind = "ok"
                  /\ FetchOf(i).body # <<>>)
                  => cache[SavePath(i)] = << FetchOf(i).body >>

\* ------------------------------------------------------------------------
\* build/ini.rs : modify_proxy_groups, and main from read_ini on
\* ------------------------------------------------------------------------

\* Most groups of the ini file.
MaxGroups == 2

\* A SelectGroup as read_ini makes it: its name, the names its "[]" parts
\* give, and the text taken for its regular expression (an Option). The
\* fields type, url, interval and tolerance pass through unchanged.
SelectGroup(name, proxies, proxies_regexp) ==
    [name |-> name, proxies |-> proxies, proxies_regexp |-> proxies_regexp]

RECURSIVE OpenParens(_, _)
\* The number of groups left open at the end of the pattern, -1 when a
\* group is closed that was not opened.
OpenParens(pattern, depth) ==
    IF depth < 0 THEN -1
    ELSE IF pattern = <<>> THEN depth
    ELSE OpenParens(Tail(pattern),
                    IF Head(pattern) = "(" THEN depth + 1
                    ELSE IF Head(pattern) = ")" THEN depth - 1
                    ELSE depth)

\* FancyRegex::new(pattern) is Ok, for the patterns of the model: texts of
\* letters, ".*", "|" and groups, which compile when the groups balance.
RegexCompiles(pattern) == OpenParens(pattern, 0) = 0

\* The alternatives of a pattern "(a|b|..)".
Alternatives(pattern) == Range(Split(SubSeq(pattern, 2, Len(pattern) - 1), "|"))

\* re.is_match(name).unwrap_or(false), for the patterns of the model: ".*"
\* matches every name, "(a|b)" a name that holds a or b.
is_match(pattern, name) ==
    IF pattern = <<".", "*">> THEN TRUE
    ELSE \E alt \in Alternatives(pattern) : Contains(name, alt)

RECURSIVE filter_node_names(_, _)
\* The names of proxy_names the pattern matches, in their order.
filter_node_names(pattern, proxy_names) ==
    IF proxy_names = <<>> THEN <<>>
    ELSE (IF is_match(pattern, Head(proxy_names)) THEN << Head(proxy_names) >>
          ELSE <<>>)
            \o filter_node_names(pattern, Tail(proxy_names))

\* proxy_group.proxies_regexp.clone().unwrap_or_default()
pattern_option(proxy_group) ==
    IF proxy_group.proxies_regexp = <<>> THEN <<>>
    ELSE proxy_group.proxies_regexp[1]

\* The proxies of a group once the matched node names are extended into
\* them.
MatchedProxies(proxy_group, proxy_names) ==
    IF pattern_option(proxy_group) = <<>> THEN proxy_group.proxies
    ELSE proxy_group.proxies
            \o filter_node_names(pattern_option(proxy_group), proxy_names)

\* The group is pushed on remove_proxy_group_proxies_names: it has no
\* proxies and no rule set of its name.
IsRemoved(proxy_group, proxy_names, ruleset_names) ==
    /\ MatchedProxies(proxy_group, proxy_names) = <<>>
    /\ proxy_group.name \notin Range(ruleset_names)

\* The group at the end of the loop body: a group without proxies that has
\* a rule set of its name gets the names of all rule sets.
FilledGroup(proxy_group, proxy_names, ruleset_names) ==
    SelectGroup(proxy_group.name,
                IF /\ MatchedProxies(proxy_group, proxy_names) = <<>>
                   /\ proxy_group.name \in Range(ruleset_names)
                THEN ruleset_names
                ELSE MatchedProxies(proxy_group, proxy_names),
                <<>>)

\* remove_proxy_group_proxies_names as a set.
RemovedNames(groups, proxy_names, ruleset_names) ==
    { groups[i].name : i \in { j \in 1..Len(groups) :
                                 IsRemoved(groups[j], proxy_names, ruleset_names) } }

RECURSIVE Without(_, _)
\* proxies.retain(|pn| !removed.contains(pn))
Without(proxies, removed) ==
    IF proxies = <<>> THEN <<>>
    ELSE (IF Head(proxies) \in removed THEN <<>> ELSE << Head(proxies) >>)
            \o Without(Tail(proxies), removed)

RECURSIVE RetainFilled(_, _, _, _)
\* The two retains of modify_proxy_groups over the groups of the loop: the
\* groups whose proxies are not empty are kept, and their proxies lose the
\* removed names.
RetainFilled(groups, proxy_names, ruleset_names, removed) ==
    IF groups = <<>> THEN <<>>
    ELSE (IF FilledGroup(Head(groups), proxy_names, ruleset_names).proxies = <<>>
          THEN <<>>
          ELSE << SelectGroup(Head(groups).name,
                              Without(FilledGroup(Head(groups), proxy_names,
                                                  ruleset_names).proxies, removed),
                              <<>>) >>)
            \o RetainFilled(Tail(groups), proxy_names, ruleset_names, removed)

\* modify_proxy_groups(pending_proxy_group, proxy_names, ruleset_names): the
\* groups it serializes.
modify_proxy_groups(pending_proxy_group, proxy_names, ruleset_names) ==
    RetainFilled(pending_proxy_group, proxy_names, ruleset_names,
                 RemovedNames(pending_proxy_group, proxy_names, ruleset_names))

\* FancyRegex::new(&pattern_option).unwrap() panics for one of the groups.
RegexPanics(pending_proxy_group) ==
    \E i \in 1..Len(pending_proxy_group) :
        /\ pattern_option(pending_proxy_group[i]) # <<>>
        /\ ~RegexCompiles(pattern_option(pending_proxy_group[i]))

\* The groups of the ini files of the model: a group of another group, a
\* group of the nodes a pattern matches, groups of all nodes, a group of a
\* built-in policy, a group with a rule set of its name, and a group whose
\* pattern does not compile.
GroupPool ==
    { SelectGroup(<<"A">>, << <<"B">> >>, <<>>),
      SelectGroup(<<"B">>, <<>>, << <<"(", "H", "K", "|", "T", "W", ")">> >>),
      SelectGroup(<<"C">>, << <<"D", "I", "R", "E", "C", "T">> >>, << <<".", "*">> >>),
      SelectGroup(<<"D">>, << <<"B">>, <<"D", "I", "R", "E", "C", "T">> >>, <<>>),
      SelectGroup(<<"R">>, <<>>, << <<"(", "U", "S", ")">> >>),
      SelectGroup(<<"E">>, <<>>, << <<"(", "H", "K", ")", "(">> >>) }

\* ruleset_names of read_ini, and the names of the pages of nodes.
RulesetNamePool == { <<>>, << <<"R">> >>, << <<"R">>, <<"Q">> >> }
PageNamePool ==
    { << << <<"H", "K", "1">> >> >>, << << <<"U", "S", "1">>, <<"J", "P", "1">> >> >>,
      << << <<"H", "K", "1">>, <<"U", "S", "1">> >>, << <<"J", "P", "1">> >> >>, << <<>> >> }

\* Most remote rule sources of the ini file.
MaxSources == 1

MnIdle ==
    /\ mn_groups = <<>>
    /\ mn_rulesets = <<>>
    /\ mn_pages = <<>>
    /\ mn_sources = 0
    /\ mn_pc = "idle"
    /\ mn_page = 0
    /\ mn_downloads = 0
    /\ mn_cache_writes = 0
    /\ mn_outputs = 0
    /\ mn_emitted = <<>>

\* main after read_ini: the pages of nodes are made and the ini file is
\* read; nothing is downloaded or written yet.
MnInit ==
    /\ mn_groups \in SeqsUpTo(GroupPool, MaxGroups)
    /\ mn_rulesets \in RulesetNamePool
    /\ mn_pages \in PageNamePool
    /\ mn_sources \in 0..MaxSources
    /\ mn_pc = "ini"
    /\ mn_page = 1
    /\ mn_downloads = 0
    /\ mn_cache_writes = 0
    /\ mn_outputs = 0
    /\ mn_emitted = <<>>

\* rules::build_rules(ruleset, save_rules_dir, down_chunk_size).await: every
\* remote source is downloaded, and the cache file of a source is written
\* when the download gave bytes the cache does not hold.
BuildRules ==
    /\ mn_pc = "ini"
    /\ mn_downloads' = mn_sources
    /\ mn_cache_writes' \in 0..mn_sources
    /\ mn_pc' = "pages"
    /\ UNCHANGED << mn_groups, mn_rulesets, mn_pages, mn_sources, mn_page,
                    mn_outputs, mn_emitted >>
    /\ UNCHANGED notMnVars

\* MyIni::modify_proxy_groups(..) for the page: it panics on a pattern that
\* does not compile, else returns the groups.
ModifyProxyGroups ==
    /\ mn_pc = "pages"
    /\ IF RegexPanics(mn_groups)
       THEN /\ mn_pc' = "panicked"
            /\ UNCHANGED mn_emitted
       ELSE /\ mn_pc' = "write"
            /\ mn_emitted' = modify_proxy_groups(mn_groups, mn_pages[mn_page],
                                                 mn_rulesets)
    /\ UNCHANGED << mn_groups, mn_rulesets, mn_pages, mn_sources, mn_page,
                    mn_downloads, mn_cache_writes, mn_outputs >>
    /\ UNCHANGED notMnVars

\* File::create(&output_path) and the writes of the page's file; then the
\* next page, or the end of main.
WriteOutput ==
    /\ mn_pc = "write"
    /\ mn_outputs' = mn_outputs + 1
    /\ mn_page' = mn_page + 1
    /\ mn_pc' = IF mn_page = Len(mn_pages) THEN "done" ELSE "pages"
    /\ UNCHANGED << mn_groups, mn_rulesets, mn_pages, mn_sources, mn_downloads,
                    mn_cache_writes, mn_emitted >>
    /\ UNCHANGED notMnVars

MnNext ==
    \/ BuildRules
    \/ ModifyProxyGroups
    \/ WriteOutput

\* ------------------------------------------------------------------------
\* Properties of modify_proxy_groups and of main
\* ------------------------------------------------------------------------

\* C29: every group modify_proxy_groups emits has proxies, and none of them
\* is the name of a group that was removed for having no proxies.
C29_EmittedGroupsHaveProxies ==
    mn_pc = "write" =>
        \A i \in 1..Len(mn_emitted) :
            /\ mn_emitted[i].proxies # <<>>
            /\ \A n \in 1..Len(mn_emitted[i].proxies) :
                  mn_emitted[i].proxies[n]
                      \notin RemovedNames(mn_groups, mn_pages[mn_page], mn_rulesets)

\* C30: a group pattern that does not compile is reported before any
\* processing: when main ends on it, no rule source was downloaded, no
\* cache file was written and no output file was made.
C30_BadPatternStopsBeforeWork ==
    mn_pc = "panicked" =>
        /\ mn_downloads = 0
        /\ mn_cache_writes = 0
        /\ mn_outputs = 0

\* ------------------------------------------------------------------------
\* Specifications
\* ------------------------------------------------------------------------

\* Calls of dedup_and_paginate on every input of the model.
InitPaginate == PgInit /\ DlIdle /\ BrIdle /\ ExIdle /\ SoIdle /\ FsIdle /\ MnIdle
SpecPaginate == InitPaginate /\ [][PgNext]_vars

\* Calls of download_multi_threaded on every resource and thread count of the
\* model, under every reply of the server and every schedule of the tasks.
InitDownload == DlInit /\ PgIdle /\ BrIdle /\ ExIdle /\ SoIdle /\ FsIdle /\ MnIdle
SpecDownload == InitDownload /\ [][DlNext]_vars

\* Calls of build_rules on every ruleset and environment of the model, under
\* every completion order of the download tasks, every interleaving of the
\* pushes and every result of the unstable sort.
InitBuild == BrInit /\ PgIdle /\ DlIdle /\ ExIdle /\ SoIdle /\ FsIdle /\ MnIdle
SpecBuild == InitBuild /\ [][BrNext]_vars

\* Calls of extraction_rules, format_rules and process_final_rules on every
\* line, name and final_rule of the model.
InitRules == ExInit /\ PgIdle /\ DlIdle /\ BrIdle /\ SoIdle /\ FsIdle /\ MnIdle
SpecRules == InitRules /\ [][ExNext]_vars

\* Calls of sort_rules on every list of lines of the model, under every
\* result of the unstable sort.
InitSort == SoInit /\ PgIdle /\ DlIdle /\ BrIdle /\ ExIdle /\ FsIdle /\ MnIdle
SpecSort == InitSort /\ [][SoNext]_vars

\* Calls of save_net_file one after the other on one path.
InitCache == FsInit /\ PgIdle /\ DlIdle /\ BrIdle /\ ExIdle /\ SoIdle /\ MnIdle
SpecCache == InitCache /\ [][FsNext]_vars

\* Calls of build_rules on remote sources when files of an earlier run are
\* cached and a write of a cache file may fail.
InitCached == CachedInit /\ PgIdle /\ DlIdle /\ ExIdle /\ SoIdle /\ FsIdle /\ MnIdle
SpecCached == InitCached /\ [][CachedNext]_vars

\* Runs of main from read_ini on, for every ini file and pages of the model.
InitMain ==
    MnInit /\ PgIdle /\ DlIdle /\ BrIdle /\ ExIdle /\ SoIdle /\ FsIdle
SpecMain == InitMain /\ [][MnNext]_vars

====
